---- MODULE Spec2Model ----
(***************************************************************************)
(* Verification model of reverse-craft/smart-fs.                           *)
(*                                                                         *)
(* The module holds one state machine per component:                       *)
(*   SpecTrunc    the line-preserving truncator   (src/src/truncator.ts)   *)
(*   SpecCache    ensureBeautified and its cache  (src/src/beautifier.ts)  *)
(*   SpecCompose  position-map composition        (spec section 4.3)       *)
(*   SpecSearch   searchInCode                    (searcher.ts)            *)
(*   SpecAnalyze  analyzeBindings                 (src/src/analyzer.ts)    *)
(* Every specification sets the variables of the other components to an    *)
(* idle value and never changes them.                                      *)
(***************************************************************************)
EXTENDS Integers, Sequences, FiniteSets, TLC

VARIABLES
  tr,        \* truncator: one truncateCodeHighPerf call
  fs,        \* cache: the file system (source file, cache code file, cache map file)
  clock,     \* cache: wall clock used for modification times
  calls,     \* cache: the ensureBeautified calls in flight
  cm,        \* compose: the maps being composed and the position looked up
  se,        \* search: one searchInCode call
  an         \* analyzer: one analyzeBindings call

vars == <<tr, fs, clock, calls, cm, se, an>>

Idle == [pc |-> "idle"]

Min(a, b) == IF a < b THEN a ELSE b
Max(a, b) == IF a > b THEN a ELSE b

RECURSIVE SeqsUpTo(_, _)
\* all sequences over S of length at most n
SeqsUpTo(S, n) ==
  IF n = 0 THEN {<<>>}
  ELSE LET shorter == SeqsUpTo(S, n - 1)
       IN shorter \cup {Append(s, x) : s \in {t \in shorter : Len(t) = n - 1}, x \in S}

(***************************************************************************)
(* TRUNCATOR                                                               *)
(*                                                                         *)
(* A source text is a sequence of characters.  The alphabet is the part of *)
(* JavaScript's lexical grammar that decides where string and template     *)
(* literals begin and end and what their values are:                       *)
(*   "n"  the letter n (an identifier character; after a backslash it is   *)
(*        the escape sequence of a line feed)                              *)
(*   "NL" a raw line feed                                                  *)
(*   "Q"  a double quote                                                   *)
(*   "T"  a backtick                                                       *)
(*   "B"  a backslash                                                      *)
(* In the output a truncation marker is the tuple <<"M", length>>.         *)
(***************************************************************************)
MaxTextLen == 6
MaxLimit == 2
MaxPreview == 2

Chars == {"n", "NL", "Q", "T", "B"}

\* number of line feeds in a character sequence
RECURSIVE countNewlines(_)
countNewlines(str) ==
  IF str = <<>> THEN 0
  ELSE (IF Head(str) = "NL" THEN 1 ELSE 0) + countNewlines(Tail(str))

\* String.prototype.slice(begin, end) with JavaScript's index rules
\* (negative indices count from the end, everything is clamped)
JsSlice(s, begin, end) ==
  LET len == Len(s)
      b == IF begin < 0 THEN Max(len + begin, 0) ELSE Min(begin, len)
      e == IF end < 0 THEN Max(len + end, 0) ELSE Min(end, len)
  IN IF b >= e THEN <<>> ELSE SubSeq(s, b + 1, e)

\* original.slice(-previewLength): -0 is 0, so previewLength 0 gives the whole
\* string
SliceFromEnd(s, previewLength) ==
  IF previewLength = 0 THEN s ELSE JsSlice(s, 0 - previewLength, Len(s))

RECURSIVE Repeat(_, _)
Repeat(x, n) == IF n <= 0 THEN <<>> ELSE <<x>> \o Repeat(x, n - 1)

createTruncatedString(original, previewLength) ==
  LET newlineCount == countNewlines(original)
      start == JsSlice(original, 0, previewLength)
      end == SliceFromEnd(original, previewLength)
      marker == <<"M", Len(original)>>
      startNewlines == countNewlines(start)
      endNewlines == countNewlines(end)
      preservedNewlines == Max(0, newlineCount - startNewlines - endNewlines)
      newlineStr == Repeat("NL", preservedNewlines)
  IN start \o <<marker>> \o newlineStr \o end

(***************************************************************************)
(* parse(sourceCode): the literal nodes of the text, or "error".           *)
(* A node is [kind, start, end, value]: start/end are the 0-based range of *)
(* the node in the source (a string literal's range includes its quotes, a *)
(* template element's range is the text between the backticks), value is   *)
(* the cooked value of a string literal and the raw value of a template    *)
(* element.                                                                *)
(***************************************************************************)
ParseError == "error"

\* scan the body of a string literal that starts (after its quote) at i (1-based);
\* returns [ok, next, value]: next is the index after the closing quote
RECURSIVE ScanString(_, _, _)
ScanString(text, i, acc) ==
  IF i > Len(text) THEN [ok |-> FALSE, next |-> i, value |-> acc]
  ELSE CASE text[i] = "Q"  -> [ok |-> TRUE, next |-> i + 1, value |-> acc]
         [] text[i] = "NL" -> [ok |-> FALSE, next |-> i, value |-> acc]
         [] text[i] = "B"  ->
              IF i + 1 > Len(text) THEN [ok |-> FALSE, next |-> i, value |-> acc]
              ELSE CASE text[i + 1] = "n"  -> ScanString(text, i + 2, Append(acc, "NL"))
                     [] text[i + 1] = "NL" -> ScanString(text, i + 2, acc)
                     [] OTHER -> ScanString(text, i + 2, Append(acc, text[i + 1]))
         [] OTHER -> ScanString(text, i + 1, Append(acc, text[i]))

\* scan the body of a template literal (no substitutions) that starts at i;
\* the value is the raw text: escapes are kept as written
RECURSIVE ScanTemplate(_, _, _)
ScanTemplate(text, i, acc) ==
  IF i > Len(text) THEN [ok |-> FALSE, next |-> i, value |-> acc]
  ELSE CASE text[i] = "T" -> [ok |-> TRUE, next |-> i + 1, value |-> acc]
         [] text[i] = "B" ->
              IF i + 1 > Len(text) THEN [ok |-> FALSE, next |-> i, value |-> acc]
              ELSE ScanTemplate(text, i + 2, acc \o <<"B", text[i + 1]>>)
         [] OTHER -> ScanTemplate(text, i + 1, Append(acc, text[i]))

\* prev is the kind of the token before position i: "start", "nl", "id",
\* "str" or "tpl".  A string literal can only begin a statement; a template
\* literal can follow any expression (tagged template).
RECURSIVE ParseFrom(_, _, _, _)
ParseFrom(text, i, prev, nodes) ==
  IF i > Len(text) THEN nodes
  ELSE CASE text[i] = "NL" -> ParseFrom(text, i + 1, "nl", nodes)
         [] text[i] = "n" ->
              IF prev \in {"str", "tpl"} THEN ParseError
              ELSE ParseFrom(text, i + 1, "id", nodes)
         [] text[i] = "B" -> ParseError
         [] text[i] = "Q" ->
              IF prev \notin {"start", "nl"} THEN ParseError
              ELSE LET r == ScanString(text, i + 1, <<>>)
                   IN IF ~r.ok THEN ParseError
                      ELSE ParseFrom(text, r.next, "str",
                             Append(nodes, [kind |-> "Literal", start |-> i - 1,
                                            end |-> r.next - 1, value |-> r.value]))
         [] text[i] = "T" ->
              LET r == ScanTemplate(text, i + 1, <<>>)
              IN IF ~r.ok THEN ParseError
                 ELSE ParseFrom(text, r.next, "tpl",
                        Append(nodes, [kind |-> "TemplateElement", start |-> i,
                                       end |-> r.next - 2, value |-> r.value]))

parse(sourceCode) == ParseFrom(sourceCode, 1, "start", <<>>)

\* the replacement text of one node, or the node's own text when it is kept
Replacement(sourceCode, node, limit, previewLength) ==
  IF Len(node.value) > limit
  THEN IF node.kind = "Literal"
       THEN <<sourceCode[node.start + 1]>>
              \o createTruncatedString(node.value, previewLength)
              \o <<sourceCode[node.start + 1]>>
       ELSE createTruncatedString(node.value, previewLength)
  ELSE JsSlice(sourceCode, node.start, node.end)

\* MagicString: the source with every node's range overwritten, ranges in
\* source order
RECURSIVE Overwrite(_, _, _, _, _, _)
Overwrite(sourceCode, nodes, k, pos, limit, previewLength) ==
  IF k > Len(nodes) THEN JsSlice(sourceCode, pos, Len(sourceCode))
  ELSE JsSlice(sourceCode, pos, nodes[k].start)
         \o Replacement(sourceCode, nodes[k], limit, previewLength)
         \o Overwrite(sourceCode, nodes, k + 1, nodes[k].end, limit, previewLength)

truncateCodeHighPerf(sourceCode, limit, previewLength) ==
  LET ast == parse(sourceCode)
  IN IF ast = ParseError THEN sourceCode
     ELSE Overwrite(sourceCode, ast, 1, 0, limit, previewLength)

\* the call returns the source unchanged: the parse threw
TruncateParseFailed ==
  /\ tr.pc = "called"
  /\ parse(tr.text) = ParseError
  /\ tr' = [tr EXCEPT !.pc = "returned",
                      !.out = truncateCodeHighPerf(tr.text, tr.limit, tr.previewLength)]
  /\ UNCHANGED <<fs, clock, calls, cm, se, an>>

\* the call walks the AST and returns the rewritten text
TruncateWalked ==
  /\ tr.pc = "called"
  /\ parse(tr.text) # ParseError
  /\ tr' = [tr EXCEPT !.pc = "returned", !.parsed = TRUE,
                      !.out = truncateCodeHighPerf(tr.text, tr.limit, tr.previewLength)]
  /\ UNCHANGED <<fs, clock, calls, cm, se, an>>

InitTrunc ==
  /\ tr \in ([pc : {"called"}, text : SeqsUpTo(Chars, MaxTextLen),
          limit : 0..MaxLimit, previewLength : 0..MaxPreview,
          parsed : {FALSE}, out : {<<>>}])
  /\ fs = Idle /\ clock = 0 /\ calls = Idle /\ cm = Idle /\ se = Idle /\ an = Idle

NextTrunc == TruncateParseFailed \/ TruncateWalked

SpecTrunc == InitTrunc /\ [][NextTrunc]_vars

\* C1: truncateCodeHighPerf returns a text with exactly as many line feeds as
\* its input, for every text, charLimit and previewLength.
C1_LineCountPreserved ==
  tr.pc = "returned" => countNewlines(tr.out) = countNewlines(tr.text)

\* the 1-based line on which index p (0-based) of a text lies
LineOfIndex(text, p) == 1 + countNewlines(SubSeq(text, 1, p))

\* where index p of the source, lying outside every literal node, ends up in
\* the rewritten text
RECURSIVE ShiftBefore(_, _, _)
ShiftBefore(nodes, k, p) ==
  IF k > Len(nodes) THEN 0
  ELSE (IF nodes[k].end <= p
        THEN Len(Replacement(tr.text, nodes[k], tr.limit, tr.previewLength))
               - (nodes[k].end - nodes[k].start)
        ELSE 0) + ShiftBefore(nodes, k + 1, p)

OutsideNodes(nodes, p) ==
  \A k \in 1..Len(nodes) : p < nodes[k].start \/ p >= nodes[k].end

\* C12: the truncated text is aligned line by line with the untruncated text:
\* every position of the text outside the literals, and the end of the text,
\* lies on the same line number in the truncated text, so line numbers and map
\* positions computed for the untruncated text fit the truncated lines.
C12_LinesAligned ==
  (tr.pc = "returned" /\ tr.parsed) =>
    LET nodes == parse(tr.text)
    IN \A p \in 0..Len(tr.text) :
         OutsideNodes(nodes, p) =>
           LineOfIndex(tr.out, p + ShiftBefore(nodes, 1, p)) = LineOfIndex(tr.text, p)

\* the first and the last n characters of a value (all of it when it is shorter)
FirstChars(value, n) == SubSeq(value, 1, Min(n, Len(value)))
LastChars(value, n) == SubSeq(value, Len(value) - Min(n, Len(value)) + 1, Len(value))

\* head, marker naming the original length, max(0, n - h - t) line feeds, tail
TruncatedShape(value, previewLen) ==
  LET head == FirstChars(value, previewLen)
      tail == LastChars(value, previewLen)
      kept == Max(0, countNewlines(value) - countNewlines(head) - countNewlines(tail))
  IN head \o <<(<<"M", Len(value)>>)>> \o Repeat("NL", kept) \o tail

\* the part of the rewritten text that stands for node k of the source
ReplacementInOutput(nodes, k) ==
  LET from == nodes[k].start + ShiftBefore(nodes, 1, nodes[k].start)
      len == Len(Replacement(tr.text, nodes[k], tr.limit, tr.previewLength))
  IN SubSeq(tr.out, from + 1, from + len)

\* C13: every string or template literal longer than charLimit is replaced by
\* its first previewLen characters, a marker naming its original length,
\* exactly max(0, n - h - t) line feeds and its last previewLen characters (a
\* string literal between its quotes).
C13_TruncatedShape ==
  (tr.pc = "returned" /\ tr.parsed) =>
    LET nodes == parse(tr.text)
    IN \A k \in 1..Len(nodes) :
         Len(nodes[k].value) > tr.limit =>
           ReplacementInOutput(nodes, k) =
             IF nodes[k].kind = "Literal"
             THEN <<"Q">> \o TruncatedShape(nodes[k].value, tr.previewLength) \o <<"Q">>
             ELSE TruncatedShape(nodes[k].value, tr.previewLength)

(***************************************************************************)
(* truncateCodeHighPerf as the tools call it: charLimit at least 50 and    *)
(* the default previewLength 50, on a text that is one string literal or   *)
(* one template literal of k equal characters.                             *)
(***************************************************************************)
MaxLiteralLen == 60

\* the number of characters of a text: a marker <<"M", n>> stands for
\* `...[TRUNCATED ${n} CHARS]...`, 24 characters and the digits of n
RECURSIVE MarkerChars(_, _)
MarkerChars(text, marks) ==
  IF marks = {} THEN 0
  ELSE LET i == CHOOSE j \in marks : TRUE
           n == text[i][2]
       IN 23 + (IF n < 10 THEN 1 ELSE IF n < 100 THEN 2 ELSE IF n < 1000 THEN 3 ELSE 4)
            + MarkerChars(text, marks \ {i})

TextLength(text) ==
  Len(text) + MarkerChars(text, {i \in 1..Len(text) : text[i] \notin Chars})

InitTruncLong ==
  /\ tr \in [pc : {"called"},
             text : {<<q>> \o [i \in 1..k |-> ch] \o <<q>> :
                       q \in {"Q", "T"}, ch \in {"n", "NL"}, k \in 0..MaxLiteralLen},
             limit : {50, 55}, previewLength : {50},
             parsed : {FALSE}, out : {<<>>}]
  /\ fs = Idle /\ clock = 0 /\ calls = Idle /\ cm = Idle /\ se = Idle /\ an = Idle

SpecTruncLong == InitTruncLong /\ [][NextTrunc]_vars

\* C24: the text truncateCodeHighPerf returns is never longer than its input,
\* and where a literal was replaced it is strictly shorter.
C24_NeverLonger ==
  (tr.pc = "returned" /\ tr.parsed) =>
    /\ TextLength(tr.out) <= TextLength(tr.text)
    /\ tr.out # tr.text => TextLength(tr.out) < TextLength(tr.text)

(***************************************************************************)
(* truncateCode: AST truncation followed by line truncation, or the        *)
(* line-based fallback when the language has no AST support or the parse   *)
(* fails.  A line truncation marker is the tuple <<"L", truncatedChars>>;  *)
(* a marker counts as one character of its line.                           *)
(***************************************************************************)
MaxSnippetLen == 4
MaxLineChars == 2

\* code.split('\n')
RECURSIVE SplitFrom(_, _, _, _)
SplitFrom(code, i, cur, acc) ==
  IF i > Len(code) THEN Append(acc, cur)
  ELSE IF code[i] = "NL" THEN SplitFrom(code, i + 1, <<>>, Append(acc, cur))
  ELSE SplitFrom(code, i + 1, Append(cur, code[i]), acc)

SplitLines(code) == SplitFrom(code, 1, <<>>, <<>>)

\* processedLines.join('\n')
RECURSIVE JoinLines(_)
JoinLines(lines) ==
  IF Len(lines) = 0 THEN <<>>
  ELSE IF Len(lines) = 1 THEN lines[1]
  ELSE lines[1] \o <<"NL">> \o JoinLines(Tail(lines))

\* a test that also cuts the lines of exactly maxLineChars characters
IsLongLineInclusive(line, maxLineChars) == Len(line) >= maxLineChars

\* the negation of: line.length <= maxLineChars
IsLongLine(line, maxLineChars) == Len(line) > maxLineChars

\* the callback of lines.map in truncateFallback and truncateLongLines
TruncateLine(line, maxLineChars, previewLength) ==
  IF ~IsLongLine(line, maxLineChars) THEN line
  ELSE JsSlice(line, 0, previewLength)
         \o <<(<<"L", Len(line) - previewLength * 2>>)>>
         \o SliceFromEnd(line, previewLength)

truncateFallback(code, maxLineChars, previewLength) ==
  IF code = <<>> THEN code
  ELSE LET lines == SplitLines(code)
       IN JoinLines([k \in 1..Len(lines) |->
                       TruncateLine(lines[k], maxLineChars, previewLength)])

\* truncateLongLines with the preview length its ratio gives
truncateLongLines(code, maxLineChars, preview) ==
  truncateFallback(code, maxLineChars, preview)

truncateCodeAST(sourceCode, limit, previewLength) ==
  [code |-> truncateCodeHighPerf(sourceCode, limit, previewLength),
   parseFailed |-> parse(sourceCode) = ParseError]

InitTruncCode ==
  /\ tr \in ([pc : {"called"}, fn : {"truncateCodeHighPerf"},
          text : SeqsUpTo(Chars, MaxSnippetLen), limit : 0..MaxLimit,
          previewLength : 0..MaxPreview, parsed : {FALSE}, out : {<<>>},
          language : {"javascript"}, maxLineChars : {MaxLineChars}, usedFallback : {FALSE}]
          \cup
          [pc : {"truncateCode"}, fn : {"truncateCode"},
          text : SeqsUpTo(Chars, MaxSnippetLen), limit : 0..MaxLimit,
          previewLength : 0..MaxPreview, parsed : {FALSE}, out : {<<>>},
          language : {"javascript", "css"}, maxLineChars : 1..MaxLineChars, usedFallback : {FALSE}])
  /\ fs = Idle /\ clock = 0 /\ calls = Idle /\ cm = Idle /\ se = Idle /\ an = Idle

\* truncateCode: the language has no AST support, line-based truncation only
TruncateCodeNoAST ==
  /\ tr.pc = "truncateCode"
  /\ tr.language # "javascript"
  /\ tr' = [tr EXCEPT !.pc = "returned", !.usedFallback = TRUE,
                      !.out = truncateFallback(tr.text, tr.maxLineChars, tr.previewLength)]
  /\ UNCHANGED <<fs, clock, calls, cm, se, an>>

\* truncateCode: astResult.parseFailed, fall back to line-based truncation
TruncateCodeParseFailed ==
  /\ tr.pc = "truncateCode"
  /\ tr.language = "javascript"
  /\ truncateCodeAST(tr.text, tr.limit, tr.previewLength).parseFailed
  /\ tr' = [tr EXCEPT !.pc = "returned", !.usedFallback = TRUE,
                      !.out = truncateFallback(tr.text, tr.maxLineChars, tr.previewLength)]
  /\ UNCHANGED <<fs, clock, calls, cm, se, an>>

\* truncateCode: AST truncation, then truncateLongLines on its result.
\* Math.floor(maxLineChars * previewRatio) for previewRatio =
\* previewLength / maxLineChars: the quotient and the product are rounded, so
\* the floor is previewLength or one less
TruncateCodeParsed ==
  /\ tr.pc = "truncateCode"
  /\ tr.language = "javascript"
  /\ LET astResult == truncateCodeAST(tr.text, tr.limit, tr.previewLength)
     IN /\ ~astResult.parseFailed
        /\ \E preview \in {tr.previewLength} \cup
                            (IF tr.previewLength >= 1 THEN {tr.previewLength - 1} ELSE {}) :
             tr' = [tr EXCEPT !.pc = "returned", !.parsed = TRUE,
                              !.usedFallback = FALSE,
                              !.out = truncateLongLines(astResult.code,
                                                        tr.maxLineChars, preview)]
  /\ UNCHANGED <<fs, clock, calls, cm, se, an>>

NextTruncCode ==
  \/ TruncateParseFailed
  \/ TruncateWalked
  \/ TruncateCodeNoAST
  \/ TruncateCodeParseFailed
  \/ TruncateCodeParsed

SpecTruncCode == InitTruncCode /\ [][NextTruncCode]_vars

UnparsedJs ==
  /\ tr.pc = "returned"
  /\ tr.language = "javascript"
  /\ parse(tr.text) = ParseError

\* C14 as claimed: when the text cannot be parsed, truncateCodeHighPerf and
\* truncateCode (JavaScript input) return the text unchanged.
C14_Original == UnparsedJs => tr.out = tr.text

\* C14 as amended: when the text cannot be parsed, truncateCodeHighPerf
\* returns it unchanged; truncateCode (JavaScript input) reports usedFallback
\* and returns the text with the same lines, every line of at most
\* maxLineChars characters unchanged, so the text is returned unchanged when
\* none of its lines is longer than maxLineChars.
C14_UnparsedFallsBackToLines ==
  UnparsedJs =>
    /\ tr.fn = "truncateCodeHighPerf" => tr.out = tr.text
    /\ tr.fn = "truncateCode" =>
         LET lines == SplitLines(tr.text)
             outLines == SplitLines(tr.out)
         IN /\ tr.usedFallback
            /\ Len(outLines) = Len(lines)
            /\ \A k \in 1..Len(lines) :
                 Len(lines[k]) <= tr.maxLineChars => outLines[k] = lines[k]
            /\ (\A k \in 1..Len(lines) : Len(lines[k]) <= tr.maxLineChars)
                 => tr.out = tr.text

\* C14 witness: truncateCode returned for an unparsable text of which one line
\* was cut and another line was kept
C14_Witness ==
  /\ UnparsedJs /\ tr.fn = "truncateCode"
  /\ tr.out # tr.text
  /\ \E k \in 1..Len(SplitLines(tr.text)) :
       /\ SplitLines(tr.text)[k] # <<>>
       /\ SplitLines(tr.out)[k] = SplitLines(tr.text)[k]

(***************************************************************************)
(* RENDER CACHE (ensureBeautified, JS/TS branch)                           *)
(*                                                                         *)
(* One source file and its cache entry: the code file                      *)
(* __smart_fs_cache__/<base>.beautified.js and the map file next to it.    *)
(* The content of the source file is a version number; rendering version v *)
(* gives code v and map v.  A cache file holds <<v, part>>: part is "full" *)
(* (all of the data), "partial" (a proper prefix of it, possibly empty: the *)
(* file was opened for writing and not all of the data has arrived) or     *)
(* "corrupt" (bytes of two different renders).  fs.hist[v] remembers the   *)
(* modification time the source file carried while its content was v, and  *)
(* fs.inFlight the calls that had read the source and not yet finished      *)
(* when it was last replaced.                                              *)
(* Every await of the code is one action, so the steps of concurrent calls *)
(* interleave exactly at the awaits.                                       *)
(***************************************************************************)
MaxClock == 2
MaxVer == 2

\* two requests for the same file
CallIds == {1, 2}

NoData == <<0, "none">>
ReadErr == <<0, "err">>

\* generate(parse(content)): the rendering of a source version
Render(content) == [code |-> <<content, "full">>, map |-> <<content, "full">>]

FullFile(content, t) == [exists |-> TRUE, ver |-> content, part |-> "full", mtime |-> t]

\* the validity test of the first cache (isCacheValid): the files exist
IsValidExistsOnly(beautifiedMtime, originalMtime) == TRUE

\* isLocalCacheValid: const isValid = beautifiedMtime >= originalMtime
IsValid(beautifiedMtime, originalMtime) == beautifiedMtime >= originalMtime

\* the cache as an earlier, completed run left it: no entry, an entry for the
\* current source, or an entry older than the current source
InitCache ==
  /\ \/ /\ clock = 0
        /\ fs = [src |-> [ver |-> 1, mtime |-> 0],
                 code |-> [exists |-> FALSE, ver |-> 0, part |-> "none", mtime |-> 0],
                 map |-> [exists |-> FALSE, ver |-> 0, part |-> "none", mtime |-> 0],
                 hist |-> <<0>>, inFlight |-> {}]
     \/ /\ clock = 0
        /\ fs = [src |-> [ver |-> 1, mtime |-> 0], code |-> FullFile(1, 0),
                 map |-> FullFile(1, 0), hist |-> <<0>>, inFlight |-> {}]
     \/ /\ clock = 1
        /\ fs = [src |-> [ver |-> 2, mtime |-> 1], code |-> FullFile(1, 0),
                 map |-> FullFile(1, 0), hist |-> <<0, 1>>, inFlight |-> {}]
  /\ calls = [c \in CallIds |->
                [pc |-> "idle", originalMtime |-> 0, beautifiedExists |-> FALSE,
                 beautifiedMtime |-> 0, isValid |-> FALSE,
                 rCode |-> NoData, rMap |-> NoData, readFailed |-> FALSE,
                 content |-> 0, wCode |-> "none", wMap |-> "none",
                 localSaveError |-> FALSE,
                 from |-> "none", code |-> NoData, rawMap |-> NoData,
                 verAtCall |-> 0, staleAtCall |-> FALSE, afterInFlight |-> FALSE]]
  /\ tr = Idle /\ cm = Idle /\ se = Idle /\ an = Idle

\* time passes
Tick ==
  /\ clock < MaxClock
  /\ clock' = clock + 1
  /\ UNCHANGED <<tr, fs, calls, cm, se, an>>

\* somebody replaces the source file: new content, modification time m (a
\* plain write stamps the current time, a copy or restore that preserves
\* timestamps stamps an earlier one)
ModifySource(m) ==
  /\ fs.src.ver < MaxVer
  /\ fs' = [fs EXCEPT !.src = [ver |-> fs.src.ver + 1, mtime |-> m],
                      !.hist = Append(fs.hist, m),
                      !.inFlight = {c \in CallIds : calls[c].pc \in {"mkdir", "writing"}}]
  /\ UNCHANGED <<tr, clock, calls, cm, se, an>>

\* ensureBeautified(originalPath) is called
CallEnsureBeautified(c) ==
  /\ calls[c].pc = "idle"
  /\ calls' = [calls EXCEPT ![c].pc = "exists",
                 ![c].verAtCall = fs.src.ver,
                 ![c].staleAtCall = ~(fs.code.exists /\ fs.code.mtime >= fs.src.mtime),
                 ![c].afterInFlight = \E w \in fs.inFlight :
                                        calls[w].pc = "done" /\ ~calls[w].localSaveError]
  /\ UNCHANGED <<tr, fs, clock, cm, se, an>>

\* await fs.stat(absolutePath): the source file exists
StatExists(c) ==
  /\ calls[c].pc = "exists"
  /\ calls' = [calls EXCEPT ![c].pc = "statOrig"]
  /\ UNCHANGED <<tr, fs, clock, cm, se, an>>

\* isLocalCacheValid: originalStats = await fs.stat(absolutePath)
StatOriginal(c) ==
  /\ calls[c].pc = "statOrig"
  /\ calls' = [calls EXCEPT ![c].pc = "statBeaut",
                            ![c].originalMtime = fs.src.mtime]
  /\ UNCHANGED <<tr, fs, clock, cm, se, an>>

\* isLocalCacheValid: beautifiedStats = await fs.stat(beautifiedPath), and the
\* branch of ensureBeautified on localCacheCheck.isValid
StatBeautified(c) ==
  /\ calls[c].pc = "statBeaut"
  /\ LET valid == fs.code.exists /\ IsValid(fs.code.mtime, calls[c].originalMtime)
     IN calls' = [calls EXCEPT
                    ![c].beautifiedExists = fs.code.exists,
                    ![c].beautifiedMtime = IF fs.code.exists THEN fs.code.mtime ELSE 0,
                    ![c].isValid = valid,
                    ![c].pc = IF valid THEN "readCache" ELSE "readSrc"]
  /\ UNCHANGED <<tr, fs, clock, cm, se, an>>

ReadFile(f) == IF f.exists THEN <<f.ver, f.part>> ELSE ReadErr

\* fs.readFile(localPaths.beautifiedPath) of the Promise.all settles
ReadCacheCode(c) ==
  /\ calls[c].pc = "readCache"
  /\ calls[c].rCode = NoData
  /\ calls' = [calls EXCEPT ![c].rCode = ReadFile(fs.code)]
  /\ UNCHANGED <<tr, fs, clock, cm, se, an>>

\* fs.readFile(localPaths.mapPath) of the Promise.all settles
ReadCacheMap(c) ==
  /\ calls[c].pc = "readCache"
  /\ calls[c].rMap = NoData
  /\ calls' = [calls EXCEPT ![c].rMap = ReadFile(fs.map)]
  /\ UNCHANGED <<tr, fs, clock, cm, se, an>>

\* both reads succeeded and the map text parses (JSON.parse(mapContent)
\* returns a map only for a completely written file): return the cache hit
CacheHitReturn(c) ==
  /\ calls[c].pc = "readCache"
  /\ calls[c].rCode \notin {NoData, ReadErr}
  /\ calls[c].rMap \notin {NoData, ReadErr}
  /\ calls[c].rMap[2] = "full"
  /\ calls' = [calls EXCEPT ![c].pc = "done", ![c].from = "cache",
                            ![c].code = calls[c].rCode,
                            ![c].rawMap = calls[c].rMap]
  /\ UNCHANGED <<tr, fs, clock, cm, se, an>>

\* a read rejected or JSON.parse threw: the catch falls through to regenerate
CacheReadFailed(c) ==
  /\ calls[c].pc = "readCache"
  /\ \/ calls[c].rCode = ReadErr
     \/ calls[c].rMap = ReadErr
     \/ /\ calls[c].rCode # NoData
        /\ calls[c].rMap # NoData
        /\ calls[c].rMap[2] # "full"
  /\ calls' = [calls EXCEPT ![c].pc = "readSrc", ![c].readFailed = TRUE]
  /\ UNCHANGED <<tr, fs, clock, cm, se, an>>

\* cache miss: content = await fs.readFile(absolutePath), then parse and
\* generate (synchronous) and the result object
ReadSourceAndRender(c) ==
  /\ calls[c].pc = "readSrc"
  /\ calls' = [calls EXCEPT ![c].pc = "mkdir",
                            ![c].content = fs.src.ver,
                            ![c].code = Render(fs.src.ver).code,
                            ![c].rawMap = Render(fs.src.ver).map]
  /\ UNCHANGED <<tr, fs, clock, cm, se, an>>

\* saveToLocal: await fs.mkdir(cacheDir, {recursive: true}) succeeds and both
\* writeFile calls are issued
Mkdir(c) ==
  /\ calls[c].pc = "mkdir"
  /\ calls' = [calls EXCEPT ![c].pc = "writing", ![c].wCode = "todo",
                            ![c].wMap = "todo"]
  /\ UNCHANGED <<tr, fs, clock, cm, se, an>>

\* saveToLocal: mkdir throws; the catch sets localSaveError and the call returns
MkdirFails(c) ==
  /\ calls[c].pc = "mkdir"
  /\ calls' = [calls EXCEPT ![c].pc = "done", ![c].from = "render",
                            ![c].localSaveError = TRUE]
  /\ UNCHANGED <<tr, fs, clock, cm, se, an>>

\* the file after a writer holding content v wrote all of its data: when the
\* file holds data of another render, written since this writer opened it, the
\* bytes of the two renders may be mixed
AfterWrite(f, v) ==
  IF f.ver = v \/ f.part = "none"
  THEN {[exists |-> TRUE, ver |-> v, part |-> "full", mtime |-> clock]}
  ELSE {[exists |-> TRUE, ver |-> v, part |-> "full", mtime |-> clock],
        [exists |-> TRUE, ver |-> v, part |-> "corrupt", mtime |-> clock]}

Truncated(v) == [exists |-> TRUE, ver |-> v, part |-> "partial", mtime |-> clock]

\* fs.writeFile(beautifiedPath, code): the file is opened with truncation
WriteOpenCode(c) ==
  /\ calls[c].pc = "writing"
  /\ calls[c].wCode = "todo"
  /\ fs' = [fs EXCEPT !.code = Truncated(calls[c].content)]
  /\ calls' = [calls EXCEPT ![c].wCode = "open"]
  /\ UNCHANGED <<tr, clock, cm, se, an>>

\* fs.writeFile(beautifiedPath, code): the last of the data is written
WriteFinishCode(c) ==
  /\ calls[c].pc = "writing"
  /\ calls[c].wCode = "open"
  /\ \E f \in AfterWrite(fs.code, calls[c].content) : fs' = [fs EXCEPT !.code = f]
  /\ calls' = [calls EXCEPT ![c].wCode = "done"]
  /\ UNCHANGED <<tr, clock, cm, se, an>>

\* fs.writeFile(mapPath, mapText): the file is opened with truncation
WriteOpenMap(c) ==
  /\ calls[c].pc = "writing"
  /\ calls[c].wMap = "todo"
  /\ fs' = [fs EXCEPT !.map = [Truncated(calls[c].content) EXCEPT !.mtime = 0]]
  /\ calls' = [calls EXCEPT ![c].wMap = "open"]
  /\ UNCHANGED <<tr, clock, cm, se, an>>

\* fs.writeFile(mapPath, mapText): the last of the data is written
WriteFinishMap(c) ==
  /\ calls[c].pc = "writing"
  /\ calls[c].wMap = "open"
  /\ \E f \in AfterWrite(fs.map, calls[c].content) :
       fs' = [fs EXCEPT !.map = [f EXCEPT !.mtime = 0]]
  /\ calls' = [calls EXCEPT ![c].wMap = "done"]
  /\ UNCHANGED <<tr, clock, cm, se, an>>

\* both writes resolved: saveToLocal returns and ensureBeautified returns result
SaveReturn(c) ==
  /\ calls[c].pc = "writing"
  /\ calls[c].wCode = "done"
  /\ calls[c].wMap = "done"
  /\ calls' = [calls EXCEPT ![c].pc = "done", ![c].from = "render"]
  /\ UNCHANGED <<tr, fs, clock, cm, se, an>>

NextCache ==
  \/ Tick
  \/ \E m \in 0..clock : ModifySource(m)
  \/ \E c \in CallIds : CallEnsureBeautified(c)
  \/ \E c \in CallIds : StatExists(c)
  \/ \E c \in CallIds : StatOriginal(c)
  \/ \E c \in CallIds : StatBeautified(c)
  \/ \E c \in CallIds : ReadCacheCode(c)
  \/ \E c \in CallIds : ReadCacheMap(c)
  \/ \E c \in CallIds : CacheHitReturn(c)
  \/ \E c \in CallIds : CacheReadFailed(c)
  \/ \E c \in CallIds : ReadSourceAndRender(c)
  \/ \E c \in CallIds : Mkdir(c)
  \/ \E c \in CallIds : MkdirFails(c)
  \/ \E c \in CallIds : WriteOpenCode(c)
  \/ \E c \in CallIds : WriteFinishCode(c)
  \/ \E c \in CallIds : WriteOpenMap(c)
  \/ \E c \in CallIds : WriteFinishMap(c)
  \/ \E c \in CallIds : SaveReturn(c)

SpecCache == InitCache /\ [][NextCache]_vars

Done(c) == calls[c].pc = "done"

C9_HitIsCompletePair ==
  \A c \in CallIds :
    (Done(c) /\ calls[c].from = "cache") =>
      /\ calls[c].code[2] = "full"
      /\ calls[c].rawMap[2] = "full"
      /\ calls[c].code[1] = calls[c].rawMap[1]

\* C10: two calls made on the same stale source file, whose content does not
\* change, return the same {code, map}; and once both have finished the cache
\* holds the code file and map file of that one render.
C10_ConcurrentCallsAgree ==
  \A c, d \in CallIds :
    (/\ c # d /\ Done(c) /\ Done(d)
     /\ calls[c].staleAtCall /\ calls[d].staleAtCall
     /\ calls[c].verAtCall = fs.src.ver /\ calls[d].verAtCall = fs.src.ver
     /\ ~calls[c].localSaveError /\ ~calls[d].localSaveError) =>
      /\ calls[c].code = calls[d].code
      /\ calls[c].rawMap = calls[d].rawMap
      /\ calls[c].code = Render(fs.src.ver).code
      /\ [ver |-> fs.code.ver, part |-> fs.code.part]
           = [ver |-> fs.src.ver, part |-> "full"]
      /\ [ver |-> fs.map.ver, part |-> fs.map.part]
           = [ver |-> fs.src.ver, part |-> "full"]

\* C11: when the source file's modification time differs, in either
\* direction, from the one the cached artifacts were rendered for, a call does
\* not return those artifacts: a complete cached {code, map} returned by a call
\* is never the rendering of a version of the file that had been replaced
\* before the call began, if the file has carried a different modification
\* time ever since the call began.
C11_HitIsForObservedMtime ==
  \A c \in CallIds :
    (/\ Done(c) /\ calls[c].from = "cache"
     /\ calls[c].code[2] = "full" /\ calls[c].rawMap[2] = "full"
     /\ calls[c].code[1] = calls[c].rawMap[1]
     /\ \A w \in calls[c].verAtCall..Len(fs.hist) :
          fs.hist[w] # fs.hist[calls[c].code[1]]) =>
      calls[c].code[1] >= calls[c].verAtCall

\* C23: the source file was replaced, with a later modification time, while a
\* render that had read the old content was in flight; a call made after that
\* render finished does not return the old content's rendering as a cache hit.
C23_NoStaleHitAfterInFlightChange ==
  \A c \in CallIds :
    (/\ Done(c) /\ calls[c].from = "cache"
     /\ calls[c].afterInFlight
     /\ calls[c].verAtCall = fs.src.ver
     /\ \A i \in 1..(Len(fs.hist) - 1) : fs.hist[i] < fs.hist[i + 1]
     /\ calls[c].code[2] = "full" /\ calls[c].rawMap[2] = "full"
     /\ calls[c].code[1] = calls[c].rawMap[1]) =>
      calls[c].code[1] = fs.src.ver

(***************************************************************************)
(* ensureBeautified with the temp-directory cache (the variant that        *)
(* renders with esbuild, keeps its cache under os.tmpdir() keyed by the    *)
(* hash of path and mtime, and saves next to the source file only when     *)
(* options.saveLocal is set).  One call; every file operation can fail the *)
(* way the file system lets it fail.  calls is the call's record, fs the   *)
(* files: the source, the local pair and the temp pair of the current key. *)
(***************************************************************************)
InitTemp ==
  /\ fs \in [srcExists : BOOLEAN, srcParses : BOOLEAN,
              local : {"none", "valid", "validNoMap", "stale"},
              temp : {"none", "dir", "pair"}]
  /\ calls \in [pc : {"stat"}, saveLocal : BOOLEAN, outcome : {"none"},
                 from : {"none"}, code : {"none"}, rawMap : {"none"},
                 localSaveError : {FALSE}, persistFailed : {"none"}]
  /\ clock = 0
  /\ tr = Idle /\ cm = Idle /\ se = Idle /\ an = Idle

Throw(message) == [calls EXCEPT !.pc = "done", !.outcome = "threw",
                                !.code = "none", !.rawMap = "none"]

\* await fs.stat(absolutePath)
TempStat ==
  /\ calls.pc = "stat"
  /\ calls' = IF ~fs.srcExists THEN Throw("File not found")
              ELSE [calls EXCEPT !.pc = IF calls.saveLocal THEN "localCheck"
                                        ELSE "ensureCacheDir"]
  /\ UNCHANGED <<tr, fs, clock, cm, se, an>>

\* saveLocal: isLocalCacheValid(absolutePath)
TempLocalCheck ==
  /\ calls.pc = "localCheck"
  /\ calls' = [calls EXCEPT !.pc = IF fs.local \in {"valid", "validNoMap"}
                                   THEN "readLocal" ELSE "ensureCacheDir"]
  /\ UNCHANGED <<tr, fs, clock, cm, se, an>>

\* local cache hit: both files are read and the map parses, or a read fails
\* and the catch falls through to regenerate
TempLocalRead ==
  /\ calls.pc = "readLocal"
  /\ calls' = IF fs.local = "valid"
              THEN [calls EXCEPT !.pc = "done", !.outcome = "returned",
                                 !.from = "local", !.code = "cached", !.rawMap = "cached"]
              ELSE [calls EXCEPT !.pc = "ensureCacheDir"]
  /\ UNCHANGED <<tr, fs, clock, cm, se, an>>

\* await ensureCacheDir(): fs.mkdir(TEMP_DIR, {recursive: true}) resolves, or
\* rejects (no permission, no space) and nothing catches it
TempEnsureCacheDir ==
  /\ calls.pc = "ensureCacheDir"
  /\ \/ /\ calls' = [calls EXCEPT !.pc = "tempCheck"]
        /\ fs' = [fs EXCEPT !.temp = IF fs.temp = "none" THEN "dir" ELSE fs.temp]
     \/ /\ fs.temp = "none"
        /\ calls' = [Throw("mkdir") EXCEPT !.persistFailed = "ensureCacheDir"]
        /\ fs' = fs
  /\ UNCHANGED <<tr, clock, cm, se, an>>

\* isCacheValid(beautifiedPath, mapPath) and, on a hit, the two reads
TempCheck ==
  /\ calls.pc = "tempCheck"
  /\ calls' = IF fs.temp = "pair"
              THEN [calls EXCEPT !.pc = IF calls.saveLocal THEN "saveLocal" ELSE "done",
                                 !.outcome = IF calls.saveLocal THEN "none" ELSE "returned",
                                 !.from = "temp", !.code = "cached", !.rawMap = "cached"]
              ELSE [calls EXCEPT !.pc = "build"]
  /\ UNCHANGED <<tr, fs, clock, cm, se, an>>

\* await esbuild.build(...): the render, or 'Esbuild processing failed'
TempBuild ==
  /\ calls.pc = "build"
  /\ calls' = IF ~fs.srcParses THEN Throw("Esbuild processing failed")
              ELSE [calls EXCEPT !.pc = "writeTemp", !.from = "render",
                                 !.code = "rendered", !.rawMap = "rendered"]
  /\ UNCHANGED <<tr, fs, clock, cm, se, an>>

\* await Promise.all([writeFile(beautifiedPath), writeFile(mapPath)]) resolves,
\* or one of the writes rejects and nothing catches it
TempWrite ==
  /\ calls.pc = "writeTemp"
  /\ \/ /\ fs' = [fs EXCEPT !.temp = "pair"]
        /\ calls' = [calls EXCEPT !.pc = IF calls.saveLocal THEN "saveLocal" ELSE "done",
                                  !.outcome = IF calls.saveLocal THEN "none" ELSE "returned"]
     \/ /\ fs' = fs
        /\ calls' = [Throw("writeFile") EXCEPT !.persistFailed = "writeTemp"]
  /\ UNCHANGED <<tr, clock, cm, se, an>>

\* saveToLocal: both writes resolve, or a write rejects and the catch sets
\* result.localSaveError
TempSaveLocal ==
  /\ calls.pc = "saveLocal"
  /\ \/ /\ fs' = [fs EXCEPT !.local = "valid"]
        /\ calls' = [calls EXCEPT !.pc = "done", !.outcome = "returned"]
     \/ /\ fs' = fs
        /\ calls' = [calls EXCEPT !.pc = "done", !.outcome = "returned",
                                  !.localSaveError = TRUE, !.persistFailed = "saveToLocal"]
  /\ UNCHANGED <<tr, clock, cm, se, an>>

NextTemp ==
  \/ TempStat
  \/ TempLocalCheck
  \/ TempLocalRead
  \/ TempEnsureCacheDir
  \/ TempCheck
  \/ TempBuild
  \/ TempWrite
  \/ TempSaveLocal

SpecTemp == InitTemp /\ [][NextTemp]_vars

\* C19: when creating the cache directory or writing a cache file fails, the
\* call still returns its {code, map} and reports the failure in a field of
\* the result; it does not throw.
C19_PersistFailureNotThrown ==
  (calls.pc = "done" /\ calls.persistFailed # "none") =>
    /\ calls.outcome = "returned"
    /\ calls.code # "none" /\ calls.rawMap # "none"
    /\ calls.localSaveError

(***************************************************************************)
(* ensureBeautified by language (the Babel variant): one call on a file of *)
(* any supported language.  The source file has a text and a way it        *)
(* parses: "ok", "recovered" (the parser reports errors and still returns  *)
(* an AST) or "fails" (the parser throws even with errorRecovery).  The    *)
(* cache entry is as an earlier run left it.  calls is the call's record.  *)
(***************************************************************************)
IsJsTs(language) == language \in {"javascript", "typescript"}

\* the text as it is, and the text formatted
Unchanged(content) == <<"original", content>>
Formatted(content) == <<"formatted", content>>

\* JSON.parse has no error recovery
JsonParseFails(kind) == kind # "ok"

\* parse(content, {errorRecovery: true}) or generate throws
BabelThrowsNever(kind) == FALSE

BabelThrows(kind) == kind = "fails"

\* beautifyCode(code, language) for the languages ensureBeautified passes to it
beautifyCode(content, kind, language) ==
  IF language = "unknown" THEN [code |-> Unchanged(content), usedFallback |-> TRUE]
  ELSE IF language = "json"
       THEN [code |-> IF JsonParseFails(kind) THEN Unchanged(content) ELSE Formatted(content),
             usedFallback |-> JsonParseFails(kind)]
  ELSE IF language \in {"html", "xml", "css"}
       THEN [code |-> Formatted(content), usedFallback |-> FALSE]
  ELSE [code |-> Unchanged(content), usedFallback |-> TRUE]

InitBeautify ==
  /\ fs \in [exists : BOOLEAN, text : {1, 2}, parse : {"ok", "recovered", "fails"},
              cache : {"none", "valid", "unreadable"}]
  /\ calls \in [pc : {"stat"},
                 language : {"javascript", "typescript", "json", "html", "xml",
                             "css", "unknown"},
                 outcome : {"none"},
                 from : {"none"}, code : {<<"none", 0>>}, rawMap : {"none"},
                 usedFallback : {FALSE}, localSaveError : {FALSE},
                 parseAttempt : {"none"}]
  /\ clock = 0
  /\ tr = Idle /\ cm = Idle /\ se = Idle /\ an = Idle

\* await fs.stat(absolutePath), language detection
BeautifyStat ==
  /\ calls.pc = "stat"
  /\ calls' = IF ~fs.exists THEN [calls EXCEPT !.pc = "done", !.outcome = "threw"]
              ELSE [calls EXCEPT !.pc = IF IsJsTs(calls.language) THEN "cacheCheck"
                                        ELSE "other"]
  /\ UNCHANGED <<tr, fs, clock, cm, se, an>>

\* non-JS/TS: read the file, beautifyCode, return without map
BeautifyOther ==
  /\ calls.pc = "other"
  /\ LET beautified == beautifyCode(fs.text, fs.parse, calls.language)
     IN calls' = [calls EXCEPT !.pc = "done", !.outcome = "returned",
                    !.from = "beautifyCode", !.code = beautified.code,
                    !.rawMap = "null", !.usedFallback = beautified.usedFallback,
                    !.parseAttempt = IF calls.language # "json" THEN "none"
                                     ELSE IF JsonParseFails(fs.parse) THEN "fails"
                                     ELSE "ok"]
  /\ UNCHANGED <<tr, fs, clock, cm, se, an>>

\* JS/TS: isLocalCacheValid and the read of a valid entry
BeautifyCacheCheck ==
  /\ calls.pc = "cacheCheck"
  /\ calls' = IF fs.cache = "valid"
              THEN [calls EXCEPT !.pc = "done", !.outcome = "returned",
                                 !.from = "cache", !.code = <<"cached", fs.text>>,
                                 !.rawMap = "cached", !.usedFallback = FALSE]
              ELSE [calls EXCEPT !.pc = "babel"]
  /\ UNCHANGED <<tr, fs, clock, cm, se, an>>

\* cache miss: read the source, parse with Babel, generate code and map; the
\* catch around parse and generate throws, no silent fallback
BeautifyBabel ==
  /\ calls.pc = "babel"
  /\ calls' = IF BabelThrows(fs.parse)
              THEN [calls EXCEPT !.pc = "done", !.outcome = "threw",
                                 !.parseAttempt = fs.parse]
              ELSE [calls EXCEPT !.pc = "saveToLocal", !.from = "render",
                                 !.code = Formatted(fs.text), !.rawMap = "map",
                                 !.usedFallback = FALSE, !.parseAttempt = fs.parse]
  /\ UNCHANGED <<tr, fs, clock, cm, se, an>>

\* saveToLocal writes both files, or catches a failed mkdir or write
BeautifySave ==
  /\ calls.pc = "saveToLocal"
  /\ \/ /\ fs' = [fs EXCEPT !.cache = "valid"]
        /\ calls' = [calls EXCEPT !.pc = "done", !.outcome = "returned"]
     \/ /\ fs' = fs
        /\ calls' = [calls EXCEPT !.pc = "done", !.outcome = "returned",
                                  !.localSaveError = TRUE]
  /\ UNCHANGED <<tr, clock, cm, se, an>>

NextBeautify ==
  \/ BeautifyStat
  \/ BeautifyOther
  \/ BeautifyCacheCheck
  \/ BeautifyBabel
  \/ BeautifySave

SpecBeautify == InitBeautify /\ [][NextBeautify]_vars

FellBack ==
  /\ calls.outcome = "returned"
  /\ calls.usedFallback
  /\ calls.code = Unchanged(fs.text)
  /\ calls.rawMap = "null"

getLocalPaths(originalPath) ==
  [beautifiedPath |-> <<originalPath.base, ".beautified.js">>,
   mapPath |-> <<originalPath.base, ".beautified.js", ".map">>]

InitPaths ==
  /\ fs \in [mtime : [[base : {"app", "lib"}, ext : {".js", ".ts", ".json"}] -> 0..1],
             cache : {[n \in {<<"app", ".beautified.js">>, <<"lib", ".beautified.js">>} |->
                         [exists |-> FALSE, of |-> [base |-> "", ext |-> ""], mtime |-> 0]]}]
  /\ calls = [pc |-> "idle", path |-> [base |-> "", ext |-> ""], from |-> "none",
              renderingOf |-> [base |-> "", ext |-> ""]]
  /\ clock = 0
  /\ tr = Idle /\ cm = Idle /\ se = Idle /\ an = Idle

\* ensureBeautified(originalPath): a file that is not JavaScript or
\* TypeScript is formatted without the cache; otherwise a valid cache entry
\* is returned, else the source is rendered and saved under its cache name
EnsureBeautifiedPath(originalPath) ==
  LET language == IF originalPath.ext = ".js" THEN "javascript"
                  ELSE IF originalPath.ext = ".ts" THEN "typescript" ELSE "json"
      localPaths == getLocalPaths(originalPath)
      entry == fs.cache[localPaths.beautifiedPath]
  IN IF ~IsJsTs(language)
     THEN /\ calls' = [pc |-> "done", path |-> originalPath, from |-> "format",
                       renderingOf |-> originalPath]
          /\ UNCHANGED <<tr, fs, clock, cm, se, an>>
     ELSE IF entry.exists /\ IsValid(entry.mtime, fs.mtime[originalPath])
     THEN /\ calls' = [pc |-> "done", path |-> originalPath, from |-> "cache",
                       renderingOf |-> entry.of]
          /\ UNCHANGED <<tr, fs, clock, cm, se, an>>
     ELSE /\ calls' = [pc |-> "done", path |-> originalPath, from |-> "render",
                       renderingOf |-> originalPath]
          /\ fs' = [fs EXCEPT !.cache[localPaths.beautifiedPath] =
                                [exists |-> TRUE, of |-> originalPath, mtime |-> clock]]
          /\ UNCHANGED <<tr, clock, cm, se, an>>

NextPaths ==
  \/ Tick
  \/ \E originalPath \in DOMAIN fs.mtime : EnsureBeautifiedPath(originalPath)

SpecPaths == InitPaths /\ [][NextPaths]_vars

\* C27: a cache hit returned for source path P is a rendering of P itself.
C27_HitIsOwnRendering ==
  (calls.pc = "done" /\ calls.from = "cache") => calls.renderingOf = calls.path

(***************************************************************************)
(* MAP COMPOSER (spec section 4.3)                                         *)
(*                                                                         *)
(* The repository hands composition to the external transform              *)
(* (runBabelTransform passes inputSourceMap to transformSync); the         *)
(* composer below is the algorithm of the specification.                   *)
(* A map is a set of segments [gl, gc, orig]: generated line and column    *)
(* and the original position, a record [line, col] or NoPos.  The outer    *)
(* map goes from space C (one generated line) to space B (two lines), the  *)
(* inner map from B to A; an inner segment at B position (l, c) points to  *)
(* the A position (l, c), so different inner segments have different       *)
(* originals.                                                              *)
(***************************************************************************)
MaxCol == 1

CLines == {1}
BLines == {1, 2}

NoPos == [line |-> 0, col |-> 0]
Positions(lines) == [line : lines, col : 0..MaxCol]

\* lookup with exact-match-only semantics (no fallback to a preceding segment)
resolveExact(m, pos) ==
  IF pos = NoPos THEN NoPos
  ELSE LET hit == {s \in m : s.gl = pos.line /\ s.gc = pos.col}
       IN IF hit = {} THEN NoPos ELSE (CHOOSE s \in hit : TRUE).orig

\* section 4.3/4.4 lookup: the segment at pos, else the nearest preceding
\* segment on the same line, else null
resolve(m, pos) ==
  IF pos = NoPos THEN NoPos
  ELSE LET \* the segments of m on the line of pos at or before its column
           before == {s \in m : s.gl = pos.line /\ s.gc <= pos.col}
       IN IF before = {} THEN NoPos
          ELSE (CHOOSE s \in before : \A t \in before : t.gc <= s.gc).orig

\* a composer that leaves out the segments whose source position has no
\* original
composeDropUnmapped(mapOuter, mapInner) ==
  {[gl |-> s.gl, gc |-> s.gc, orig |-> resolve(mapInner, s.orig)] :
     s \in {t \in mapOuter : resolve(mapInner, t.orig) # NoPos}}

\* section 4.3: for each segment (genPos_C, srcPos_B) of mapOuter emit
\* (genPos_C, resolve(mapInner, srcPos_B)), null when nothing precedes srcPos_B
compose(mapOuter, mapInner) ==
  {[gl |-> s.gl, gc |-> s.gc, orig |-> resolve(mapInner, s.orig)] : s \in mapOuter}

\* all maps with generated positions in gen and originals chosen by target
OuterMaps ==
  {{[gl |-> g.line, gc |-> g.col, orig |-> f[g]] : g \in {h \in Positions(CLines) : f[h] # NoPos}} :
     f \in [Positions(CLines) -> Positions(BLines) \cup {NoPos}]}

InnerMaps ==
  {{[gl |-> g.line, gc |-> g.col, orig |-> g] : g \in S} : S \in SUBSET Positions(BLines)}

InitCompose ==
  /\ cm \in [pc : {"start"}, mapOuter : OuterMaps, mapInner : InnerMaps,
             composed : {{}}, p : {NoPos}, viaComposed : {NoPos}, viaChain : {NoPos}]
  /\ tr = Idle /\ fs = Idle /\ clock = 0 /\ calls = Idle /\ se = Idle /\ an = Idle

\* compose(mapOuter, mapInner)
Compose ==
  /\ cm.pc = "start"
  /\ cm' = [cm EXCEPT !.pc = "composed",
                      !.composed = compose(cm.mapOuter, cm.mapInner)]
  /\ UNCHANGED <<tr, fs, clock, calls, se, an>>

\* a consumer looks up generated position pos in the composed map, and in the
\* outer map and then the inner map
Lookup(pos) ==
  /\ cm.pc = "composed"
  /\ cm' = [cm EXCEPT !.pc = "resolved", !.p = pos,
                      !.viaComposed = resolve(cm.composed, pos),
                      !.viaChain = resolve(cm.mapInner, resolve(cm.mapOuter, pos))]
  /\ UNCHANGED <<tr, fs, clock, calls, se, an>>

NextCompose == Compose \/ \E pos \in Positions(CLines) : Lookup(pos)

SpecCompose == InitCompose /\ [][NextCompose]_vars

\* C3: for every generated position p in mapOuter's domain, resolving p
\* through compose(mapOuter, mapInner) gives the same original position as
\* resolving p through mapOuter and then through mapInner.
C3_ComposeResolvesLikeChain ==
  (cm.pc = "resolved" /\ resolve(cm.mapOuter, cm.p) # NoPos) =>
     cm.viaComposed = cm.viaChain

\* C3 witness: a looked-up position that falls back to a preceding outer
\* segment, whose source position falls back to a preceding inner segment, and
\* resolves to an original
C3_Witness ==
  /\ cm.pc = "resolved"
  /\ resolveExact(cm.mapOuter, cm.p) = NoPos
  /\ resolve(cm.mapOuter, cm.p) # NoPos
  /\ resolveExact(cm.mapInner, resolve(cm.mapOuter, cm.p)) = NoPos
  /\ cm.viaChain # NoPos
  /\ cm.viaComposed = cm.viaChain

(***************************************************************************)
(* Three stages: map1 goes from space D (one generated line) to space C,   *)
(* map2 from C to B, map3 from B to A.                                     *)
(***************************************************************************)
DLines == {1}

\* map1 ranges over all maps from D positions to C positions
InitCompose3 ==
  /\ cm \in [pc : {"start"},
             map1 : {{[gl |-> g.line, gc |-> g.col, orig |-> f[g]] :
                        g \in {h \in Positions(DLines) : f[h] # NoPos}} :
                      f \in [Positions(DLines) -> Positions(CLines) \cup {NoPos}]},
             map2 : OuterMaps, map3 : InnerMaps,
             left : {{}}, right : {{}}, p : {NoPos},
             viaLeft : {NoPos}, viaRight : {NoPos}]
  /\ tr = Idle /\ fs = Idle /\ clock = 0 /\ calls = Idle /\ se = Idle /\ an = Idle

\* the three maps are composed left to right and right to left
ComposeBothWays ==
  /\ cm.pc = "start"
  /\ cm' = [cm EXCEPT !.pc = "composed",
                      !.left = compose(compose(cm.map1, cm.map2), cm.map3),
                      !.right = compose(cm.map1, compose(cm.map2, cm.map3))]
  /\ UNCHANGED <<tr, fs, clock, calls, se, an>>

\* a consumer looks up generated position pos in both composed maps
LookupBoth(pos) ==
  /\ cm.pc = "composed"
  /\ cm' = [cm EXCEPT !.pc = "resolved", !.p = pos,
                      !.viaLeft = resolve(cm.left, pos),
                      !.viaRight = resolve(cm.right, pos)]
  /\ UNCHANGED <<tr, fs, clock, calls, se, an>>

NextCompose3 == ComposeBothWays \/ \E pos \in Positions(DLines) : LookupBoth(pos)

SpecCompose3 == InitCompose3 /\ [][NextCompose3]_vars

\* C18: compose(compose(m1, m2), m3) and compose(m1, compose(m2, m3)) are the
\* same map, and every generated position resolves through both to the same
\* original position or to null in both.
C18_ComposeAssociative ==
  /\ cm.pc \in {"composed", "resolved"} => cm.left = cm.right
  /\ cm.pc = "resolved" => cm.viaLeft = cm.viaRight

\* C18 witness: a looked-up position whose C position has no segment at or
\* before it in map2, null in both composed maps, while another segment of the
\* composed map reaches an original
C18_Witness ==
  /\ cm.pc = "resolved"
  /\ resolve(cm.map1, cm.p) # NoPos
  /\ resolve(cm.map2, resolve(cm.map1, cm.p)) = NoPos
  /\ cm.viaLeft = NoPos /\ cm.viaRight = NoPos
  /\ \E sg \in cm.left : sg.orig # NoPos

(***************************************************************************)
(* SEARCH ENGINE (searchInCode)                                            *)
(*                                                                         *)
(* The searched text is a sequence over "a", "A" and "NL".  A compiled     *)
(* pattern is one of                                                       *)
(*   [kind |-> "lit", s |-> chars]  the characters in order (a literal     *)
(*                                  query; the empty query matches the     *)
(*                                  empty string everywhere; "NL" in it    *)
(*                                  matches across a line break)           *)
(*   [kind |-> "star", s |-> <<c>>] c*   (greedy, may match empty)          *)
(*   [kind |-> "bol", s |-> <<>>]   ^    (flag m: start of every line)      *)
(*   [kind |-> "eol", s |-> <<>>]   $    (flag m: end of every line)        *)
(* Indices into the text are 0-based as in the code.                       *)
(***************************************************************************)
MaxCodeLen == 4
MaxPatLen == 2
MaxMatches == 2
MaxContext == 1

TextChars == {"a", "A", "NL"}

\* flag i: letters compare without case
Fold(c, caseSensitive) == IF ~caseSensitive /\ c = "A" THEN "a" ELSE c

\* the run of characters equal to ch that starts at 0-based index i
RECURSIVE RunLength(_, _, _, _)
RunLength(code, i, ch, cs) ==
  IF i < Len(code) /\ Fold(code[i + 1], cs) = Fold(ch, cs)
  THEN 1 + RunLength(code, i + 1, ch, cs)
  ELSE 0

\* length of the match of pat that starts at index i, or -1
MatchLenAt(code, pat, i, cs) ==
  CASE pat.kind = "lit" ->
         IF /\ i + Len(pat.s) <= Len(code)
            /\ \A k \in 1..Len(pat.s) : Fold(code[i + k], cs) = Fold(pat.s[k], cs)
         THEN Len(pat.s) ELSE -1
    [] pat.kind = "star" -> RunLength(code, i, pat.s[1], cs)
    [] pat.kind = "bol" -> IF i = 0 \/ code[i] = "NL" THEN 0 ELSE -1
    [] pat.kind = "eol" -> IF i = Len(code) \/ code[i + 1] = "NL" THEN 0 ELSE -1

NoMatch == [index |-> -1, end |-> -1]

\* regex.exec(code) of a global regex: the first match at or after lastIndex
Exec(code, pat, lastIndex, cs) ==
  LET starts == {i \in lastIndex..Len(code) : MatchLenAt(code, pat, i, cs) >= 0}
  IN IF starts = {} THEN NoMatch
     ELSE LET i == CHOOSE j \in starts : \A k \in starts : j <= k
          IN [index |-> i, end |-> i + MatchLenAt(code, pat, i, cs)]

\* buildLineOffsets: offsets[k] is the index where line k starts (1-based k
\* here, 0-based array in the code)
RECURSIVE LineOffsetsFrom(_, _, _)
LineOffsetsFrom(code, i, offsets) ==
  IF i >= Len(code) THEN offsets
  ELSE LineOffsetsFrom(code, i + 1,
         IF code[i + 1] = "NL" THEN Append(offsets, i + 1) ELSE offsets)

buildLineOffsets(code) ==
  LET offsets == LineOffsetsFrom(code, 0, <<0>>)
  IN [offsets |-> offsets, totalLines |-> Len(offsets)]

\* getLineNumberFromIndex: the binary search of the code (offsets[mid] of the
\* code is offsets[mid + 1] here)
RECURSIVE BinarySearch(_, _, _, _)
BinarySearch(offsets, low, high, index) ==
  IF low > high THEN low
  ELSE LET mid == (low + high) \div 2
       IN IF offsets[mid + 1] <= index
          THEN BinarySearch(offsets, mid + 1, high, index)
          ELSE BinarySearch(offsets, low, mid - 1, index)

getLineNumberFromIndex(offsets, totalLines, index) ==
  BinarySearch(offsets, 0, totalLines - 1, index)

\* getLineContent (the text has no carriage returns)
getLineContent(code, offsets, totalLines, lineNo) ==
  IF lineNo < 1 \/ lineNo > totalLines THEN <<>>
  ELSE LET start == offsets[lineNo]
           end == IF lineNo < totalLines THEN offsets[lineNo + 1] - 1 ELSE Len(code)
       IN JsSlice(code, start, end)

\* a search that reports every match, also a second one on a line
IsDuplicateNever(lineNumber, lastMatchedLine) == FALSE

\* "Dedupe: skip if same line already matched"
IsDuplicate(lineNumber, lastMatchedLine) == lineNumber = lastMatchedLine

\* a collector that takes one match more than the cap
HasRoomInclusive(count, maxMatches) == count <= maxMatches

\* "Only build match details if we haven't hit the limit yet"
HasRoom(count, maxMatches) == count < maxMatches

\* getOriginalPosition: consumer.originalPositionFor({line, column: 0}), the
\* segment of that generated line at or before column 0, else null
getOriginalPosition(map, lineNumber) ==
  resolve(map, [line |-> lineNumber, col |-> 0])

\* se.map has one segment at the start of every line, as a renderer that
\* retains a one-line original gives it
InitSearch ==
  /\ se \in ([pc : {"loop"}, code : SeqsUpTo(TextChars, MaxCodeLen),
          pat : [kind : {"lit"}, s : SeqsUpTo(TextChars, MaxPatLen)]
                  \cup [kind : {"star"}, s : {<<"a">>}]
                  \cup [kind : {"bol", "eol"}, s : {<<>>}],
          caseSensitive : BOOLEAN, maxMatches : 0..MaxMatches,
          contextLines : 0..MaxContext,
          lastIndex : {0}, matches : {<<>>}, lastMatchedLine : {-1},
          totalMatchesFound : {0}, truncated : {FALSE},
          expired : {FALSE}, exit : {"none"}, examined : {0}, skipped : {0},
          map : {{[gl |-> l, gc |-> 0, orig |-> [line |-> 1, col |-> l - 1]] : l \in 1..(MaxCodeLen + 1)}}])
  /\ tr = Idle /\ fs = Idle /\ clock = 0 /\ calls = Idle /\ cm = Idle /\ an = Idle

\* the match of this iteration and regex.lastIndex after the zero-width guard
ThisMatch == Exec(se.code, se.pat, se.lastIndex, se.caseSensitive)
\* lastIndex left where the match ended, also after an empty match
NextLastIndexUnguarded(m) == m.end

NextLastIndex(m) == IF m.index = m.end THEN m.end + 1 ELSE m.end
ThisLine(m) ==
  LET idx == buildLineOffsets(se.code)
  IN getLineNumberFromIndex(idx.offsets, idx.totalLines, m.index)

\* the context lines from..to of a match, each with its content and its
\* original position
Context(from, to) ==
  LET idx == buildLineOffsets(se.code)
  IN [k \in 1..Max(0, to - from + 1) |->
        [lineNumber |-> from + k - 1,
         content |-> getLineContent(se.code, idx.offsets, idx.totalLines, from + k - 1),
         originalPosition |-> getOriginalPosition(se.map, from + k - 1)]]

NewMatch(lineNumber) ==
  LET idx == buildLineOffsets(se.code)
  IN [lineNumber |-> lineNumber,
      lineContent |-> getLineContent(se.code, idx.offsets, idx.totalLines, lineNumber),
      originalPosition |-> getOriginalPosition(se.map, lineNumber),
      contextBefore |-> Context(Max(1, lineNumber - se.contextLines), lineNumber - 1),
      contextAfter |-> Context(lineNumber + 1,
                               Min(idx.totalLines, lineNumber + se.contextLines))]

\* more than timeoutMs has elapsed since startTime
TimeoutElapses ==
  /\ se.pc = "loop"
  /\ ~se.expired
  /\ se' = [se EXCEPT !.expired = TRUE]
  /\ UNCHANGED <<tr, fs, clock, calls, cm, an>>

\* regex.exec returns null: the loop ends and the result is returned
SearchExhausted ==
  /\ se.pc = "loop"
  /\ ThisMatch = NoMatch
  /\ se' = [se EXCEPT !.pc = "done", !.exit = "exhausted",
                      !.truncated = se.totalMatchesFound > se.maxMatches]
  /\ UNCHANGED <<tr, fs, clock, calls, cm, an>>

\* an iteration whose match is on the line matched last: continue
SearchSkipSameLine ==
  /\ se.pc = "loop"
  /\ ThisMatch # NoMatch
  /\ IsDuplicate(ThisLine(ThisMatch), se.lastMatchedLine)
  /\ se' = [se EXCEPT !.lastIndex = NextLastIndex(ThisMatch),
                      !.examined = Min(se.examined + 1, 2),
                      !.skipped = Min(se.skipped + 1, 2)]
  /\ UNCHANGED <<tr, fs, clock, calls, cm, an>>

\* an iteration that counts a match only while matches has room
CountedWithinCap(m) ==
  [se EXCEPT !.lastIndex = NextLastIndex(m),
             !.examined = Min(se.examined + 1, 2),
             !.lastMatchedLine = ThisLine(m),
             !.totalMatchesFound = IF HasRoom(Len(se.matches), se.maxMatches)
                                   THEN se.totalMatchesFound + 1
                                   ELSE se.totalMatchesFound,
             !.matches = IF HasRoom(Len(se.matches), se.maxMatches)
                         THEN Append(se.matches, NewMatch(ThisLine(m)))
                         ELSE se.matches]

\* the state after an iteration that counts its match
Counted(m) ==
  [se EXCEPT !.lastIndex = NextLastIndex(m),
             !.examined = Min(se.examined + 1, 2),
             !.lastMatchedLine = ThisLine(m),
             !.totalMatchesFound = se.totalMatchesFound + 1,
             !.matches = IF HasRoom(Len(se.matches), se.maxMatches)
                         THEN Append(se.matches, NewMatch(ThisLine(m)))
                         ELSE se.matches]

\* an iteration that counts its match; the timeout has not elapsed
SearchCountMatch ==
  /\ se.pc = "loop"
  /\ ThisMatch # NoMatch
  /\ ~IsDuplicate(ThisLine(ThisMatch), se.lastMatchedLine)
  /\ ~se.expired
  /\ se' = Counted(ThisMatch)
  /\ UNCHANGED <<tr, fs, clock, calls, cm, an>>

\* an iteration that counts its match and then breaks on the timeout
SearchCountMatchAndTimeOut ==
  /\ se.pc = "loop"
  /\ ThisMatch # NoMatch
  /\ ~IsDuplicate(ThisLine(ThisMatch), se.lastMatchedLine)
  /\ se.expired
  /\ se' = [Counted(ThisMatch) EXCEPT
              !.pc = "done", !.exit = "timeout",
              !.truncated = se.totalMatchesFound + 1 > se.maxMatches]
  /\ UNCHANGED <<tr, fs, clock, calls, cm, an>>

NextSearch ==
  \/ TimeoutElapses
  \/ SearchExhausted
  \/ SearchSkipSameLine
  \/ SearchCountMatch
  \/ SearchCountMatchAndTimeOut

SpecSearch == InitSearch /\ [][NextSearch]_vars

\* C4: no two elements of matches have the same line number.
C4_OneMatchPerLine ==
  \A i, j \in 1..Len(se.matches) :
    i # j => se.matches[i].lineNumber # se.matches[j].lineNumber

\* C4 witness: a finished search that reported two lines and skipped further
\* matches on a line already reported
C4_Witness ==
  /\ se.pc = "done"
  /\ Len(se.matches) >= 2
  /\ se.skipped >= 1

\* C5: on every exit path matches.length = min(totalMatches, maxMatches) and
\* truncated = (totalMatches > maxMatches).
C5_SearchCap ==
  se.pc = "done" =>
    /\ Len(se.matches) = Min(se.totalMatchesFound, se.maxMatches)
    /\ se.truncated = (se.totalMatchesFound > se.maxMatches)

\* C5 witness: a search that left by the timeout with more matched lines than
\* the cap
C5_Witness ==
  /\ se.pc = "done"
  /\ se.exit = "timeout"
  /\ se.maxMatches >= 1
  /\ se.totalMatchesFound > se.maxMatches
  /\ se.truncated

\* the start indices of the successive matches of a global scan from index i
RECURSIVE ScanStarts(_, _, _, _)
ScanStarts(code, pat, cs, i) ==
  LET m == Exec(code, pat, i, cs)
  IN IF i > Len(code) \/ m = NoMatch THEN {}
     ELSE {m.index} \cup ScanStarts(code, pat, cs,
                                     IF m.index = m.end THEN m.end + 1 ELSE m.end)

\* the lines on which a match of the scan starts
MatchedLines ==
  {LineOfIndex(se.code, i) : i \in ScanStarts(se.code, se.pat, se.caseSensitive, 0)}

\* C16: when the scan reaches the end of the text, totalMatches is the number
\* of distinct lines on which a match starts, whatever maxMatches is.
C16_TotalIsMatchedLines ==
  (se.pc = "done" /\ se.exit = "exhausted") =>
    se.totalMatchesFound = Cardinality(MatchedLines)

\* C16 witness: a scan to the end of the text that met several matches on one
\* line and counted more lines than maxMatches
C16_Witness ==
  /\ se.pc = "done" /\ se.exit = "exhausted"
  /\ se.skipped >= 1
  /\ se.totalMatchesFound >= 2
  /\ se.totalMatchesFound > se.maxMatches
  /\ se.totalMatchesFound = Cardinality(MatchedLines)

\* C15: once the timeout has elapsed, the iteration that examines the next
\* match ends the scan, whichever line the match is on: the search returns with
\* what it has gathered.
C15_StopsAtNextMatch ==
  [][(se.pc = "loop" /\ se.expired /\ ThisMatch # NoMatch) => se'.pc = "done"]_vars

\* The searches whose pattern is at most one character long (the empty
\* pattern, c*, ^ and $ match the empty string), with the loop kept running:
\* an iteration that can be taken is taken. Nothing obliges the timeout to
\* elapse.
InitSearchLive ==
  /\ InitSearch
  /\ Len(se.pat.s) <= 1
  /\ se.caseSensitive
  /\ se.maxMatches = MaxMatches
  /\ se.contextLines = 0

SpecSearchLive ==
  /\ InitSearchLive
  /\ [][NextSearch]_vars
  /\ WF_vars(SearchExhausted \/ SearchSkipSameLine \/ SearchCountMatch
               \/ SearchCountMatchAndTimeOut)

\* C26: the match loop of searchInCode terminates for every text and pattern,
\* also for a pattern that matches the empty string at every position and at
\* the end of the text, without help from the timeout.
C26_LoopTerminates == <>(se.pc = "done")

\* C26 witness: a scan that ran to the end of the text with a pattern whose
\* last match was the empty string at the end of the text; no timeout elapsed
C26_Witness ==
  /\ se.pc = "done" /\ se.exit = "exhausted" /\ ~se.expired
  /\ se.pat.kind \in {"star", "eol"}
  /\ Len(se.code) >= 2
  /\ se.lastIndex = Len(se.code) + 1
  /\ se.examined >= 2

(***************************************************************************)
(* buildLineOffsets, one loop iteration per step, with its Int32Array: se  *)
(* holds the text, the loop index i, the array offsets (a function on      *)
(* 0..capacity-1, zero where nothing was stored), capacity and lineCount;  *)
(* on return se.index is offsets.subarray(0, lineCount + 1), 1-based.      *)
(* The texts are n lines of w characters, each ended by a line feed,       *)
(* followed by t characters.                                               *)
(***************************************************************************)
MaxIndexLines == 17

\* a resize that allocates the larger array and copies nothing
GrowEmpty(offsets, capacity) == [k \in 0..(2 * capacity - 1) |-> 0]

\* new Int32Array(capacity * 2) followed by newArr.set(offsets)
Grow(offsets, capacity) ==
  [k \in 0..(2 * capacity - 1) |-> IF k < capacity THEN offsets[k] ELSE 0]

InitLineIndex ==
  /\ se \in {[pc |-> "index",
              code |-> [p \in 1..(n * (w + 1) + t) |->
                          IF p <= n * (w + 1) /\ p % (w + 1) = 0 THEN "NL" ELSE "a"],
              i |-> 0,
              capacity |-> Max(16, (n * (w + 1) + t + 39) \div 40),
              offsets |-> [k \in 0..(Max(16, (n * (w + 1) + t + 39) \div 40) - 1) |-> 0],
              lineCount |-> 0,
              index |-> <<>>,
              totalLines |-> 0] : n \in 0..MaxIndexLines, w \in 0..1, t \in 0..1}
  /\ tr = Idle /\ fs = Idle /\ clock = 0 /\ calls = Idle /\ cm = Idle /\ an = Idle

\* one iteration of the for loop
IndexStep ==
  /\ se.pc = "index"
  /\ se.i < Len(se.code)
  /\ se' = IF se.code[se.i + 1] # "NL"
           THEN [se EXCEPT !.i = se.i + 1]
           ELSE LET lineCount == se.lineCount + 1
                    resize == lineCount >= se.capacity
                    offsets == IF resize THEN Grow(se.offsets, se.capacity)
                               ELSE se.offsets
                IN [se EXCEPT !.i = se.i + 1,
                              !.lineCount = lineCount,
                              !.capacity = IF resize THEN 2 * se.capacity
                                           ELSE se.capacity,
                              !.offsets = [offsets EXCEPT ![lineCount] = se.i + 1]]
  /\ UNCHANGED <<tr, fs, clock, calls, cm, an>>

\* the loop is over: return the subarray and the line count
IndexReturn ==
  /\ se.pc = "index"
  /\ se.i >= Len(se.code)
  /\ se' = [se EXCEPT !.pc = "built",
                      !.index = [k \in 1..(se.lineCount + 1) |-> se.offsets[k - 1]],
                      !.totalLines = se.lineCount + 1]
  /\ UNCHANGED <<tr, fs, clock, calls, cm, an>>

NextLineIndex ==
  \/ IndexStep
  \/ IndexReturn

SpecLineIndex == InitLineIndex /\ [][NextLineIndex]_vars

\* the number of line feeds before position i of the text
NewlinesBefore(code, i) == Cardinality({k \in 1..i : code[k] = "NL"})

\* C25: the index built for a text starts with 0, is strictly increasing and
\* has one entry per line (it is the sequence of line starts the search
\* computes), and for every index i from 0 to the length of the text
\* getLineNumberFromIndex returns 1 plus the number of line feeds before i.
C25_LineIndex ==
  se.pc = "built" =>
    /\ se.index[1] = 0
    /\ \A k \in 1..(Len(se.index) - 1) : se.index[k] < se.index[k + 1]
    /\ se.totalLines = Len(se.index)
    /\ Len(se.index) = 1 + NewlinesBefore(se.code, Len(se.code))
    /\ se.index = buildLineOffsets(se.code).offsets
    /\ \A i \in 0..Len(se.code) :
         getLineNumberFromIndex(se.index, se.totalLines, i)
           = 1 + NewlinesBefore(se.code, i)

\* C25 witness: an index of more lines than the array first had room for,
\* built over a text that ends inside its last line
C25_Witness ==
  /\ se.pc = "built"
  /\ se.capacity > 16
  /\ se.totalLines > 16
  /\ se.index[se.totalLines] < Len(se.code)
  /\ getLineNumberFromIndex(se.index, se.totalLines, Len(se.code)) = se.totalLines

(***************************************************************************)
(* searchInCode with maps of every shape: each position of the first lines *)
(* has no segment, a segment with a source or a segment without one.       *)
(***************************************************************************)
MaxMappedLen == 3

\* the maps of the text: segments at columns 0 and 1 of lines 1 and 2, every
\* segment on a character of its line
InitSearchMap ==
  /\ se \in ([pc : {"loop"}, code : SeqsUpTo(TextChars, MaxMappedLen),
          pat : [kind : {"lit"}, s : SeqsUpTo({"a"}, 1)],
          caseSensitive : {FALSE}, maxMatches : {MaxMatches},
          contextLines : 0..MaxContext,
          lastIndex : {0}, matches : {<<>>}, lastMatchedLine : {-1},
          totalMatchesFound : {0}, truncated : {FALSE},
          expired : {FALSE}, exit : {"none"}, examined : {0}, skipped : {0},
          map : {{[gl |-> p[1], gc |-> p[2],
                    orig |-> IF f[p] = "src"
                             THEN [line |-> 1, col |-> 2 * (p[1] - 1) + p[2]]
                             ELSE NoPos] :
                    p \in {q \in {1, 2} \X {0, 1} : f[q] # "none"}} :
                 f \in [{1, 2} \X {0, 1} -> {"none", "src", "nosrc"}]}])
  /\ LET idx == buildLineOffsets(se.code)
     IN \A sg \in se.map :
          sg.gc < Len(getLineContent(se.code, idx.offsets, idx.totalLines, sg.gl))
  /\ tr = Idle /\ fs = Idle /\ clock = 0 /\ calls = Idle /\ cm = Idle /\ an = Idle

SpecSearchMap == InitSearchMap /\ [][NextSearch]_vars

\* the lines a result reports with a position: match lines and context lines
ReportedLines ==
  UNION {{<<se.matches[i].lineNumber, se.matches[i].originalPosition>>}
           \cup {<<se.matches[i].contextBefore[k].lineNumber,
                    se.matches[i].contextBefore[k].originalPosition>> :
                      k \in 1..Len(se.matches[i].contextBefore)}
           \cup {<<se.matches[i].contextAfter[k].lineNumber,
                    se.matches[i].contextAfter[k].originalPosition>> :
                      k \in 1..Len(se.matches[i].contextAfter)} :
         i \in 1..Len(se.matches)}

SourcedOnLine(l) == {sg \in se.map : sg.gl = l /\ sg.orig # NoPos}

ValidPosition(pos) == pos # NoPos /\ pos.line >= 1 /\ pos.col >= 0

\* C17: the position reported for a match line or context line is a position
\* the map gives for that generated line and is valid (not null, line >= 1,
\* column >= 0) whenever the map has at least one segment on that line.
C17_PositionOfLine ==
  \A r \in ReportedLines :
    SourcedOnLine(r[1]) # {} =>
      /\ ValidPosition(r[2])
      /\ r[2] \in {sg.orig : sg \in SourcedOnLine(r[1])}

(***************************************************************************)
(* smartSearch: the library wrapper around searchInCode.  calls is the     *)
(* wrapper's record (its arguments and what it formats), se the search it  *)
(* starts.  An omitted option is Undefined; options.given is FALSE when    *)
(* the options argument itself is omitted.  The rendered text has n equal  *)
(* lines, so that a search can find more matches than any default cap.     *)
(***************************************************************************)
MaxSearchLines == 12

Undefined == -1
UndefinedQuery == [kind |-> "undefined", s |-> <<>>]

\* a ?? b
OrElse(a, b) == IF a = Undefined THEN b ELSE a

InitSmartSearch ==
  /\ calls \in [pc : {"called"}, fileExists : BOOLEAN, hasMap : BOOLEAN,
               \* n lines of w characters "a"
               code : {[i \in 1..Max(0, n * (w + 1) - 1) |->
                          IF i % (w + 1) = 0 THEN "NL" ELSE "a"] :
                         n \in 0..MaxSearchLines, w \in {1, 2}},
               query : [kind : {"lit"}, s : {<<"a">>, <<"a", "a">>}],
               options : [given : {TRUE},
                          query : [kind : {"lit"}, s : {<<"a">>, <<"a", "a">>}]
                                    \cup {UndefinedQuery},
                          maxMatches : {Undefined, 2, 11},
                          caseSensitive : {"undefined", "true"},
                          contextLines : {Undefined, 0}]
                         \cup
                         [given : {FALSE}, query : {UndefinedQuery},
                          maxMatches : {Undefined}, caseSensitive : {"undefined"},
                          contextLines : {Undefined}],
               error : {"none"}, shownCap : {0}, moreShown : {FALSE}, more : {0}]
  /\ se = Idle
  /\ tr = Idle /\ fs = Idle /\ clock = 0 /\ cm = Idle /\ an = Idle

\* smartSearch up to the call of searchInCode, and searchInCode up to its loop:
\* the destructuring with its defaults and the construction of the regex
SmartSearchCall ==
  /\ calls.pc = "called"
  /\ LET \* options ?? { query }
         options == IF calls.options.given THEN calls.options
                    ELSE [calls.options EXCEPT !.query = calls.query]
     IN IF ~calls.fileExists
        THEN calls' = [calls EXCEPT !.pc = "done", !.error = "File not found"] /\ se' = se
        ELSE IF ~calls.hasMap
        THEN calls' = [calls EXCEPT !.pc = "done",
                                    !.error = "Search requires source map support"]
             /\ se' = se
        ELSE IF options.query = UndefinedQuery
        THEN \* escapeRegex(undefined) throws a TypeError; the catch reports it
             calls' = [calls EXCEPT !.pc = "done", !.error = "Search error"] /\ se' = se
        ELSE /\ calls' = [calls EXCEPT !.pc = "searching"]
             /\ se' = [pc |-> "loop", code |-> calls.code, pat |-> options.query,
                       caseSensitive |-> options.caseSensitive = "true",
                       maxMatches |-> OrElse(options.maxMatches, 10),
                       contextLines |-> OrElse(options.contextLines, 2),
                       lastIndex |-> 0, matches |-> <<>>, lastMatchedLine |-> -1,
                       totalMatchesFound |-> 0, truncated |-> FALSE,
                       expired |-> FALSE, exit |-> "none", examined |-> 0,
                       skipped |-> 0, map |-> {}]
  /\ UNCHANGED <<tr, fs, clock, cm, an>>

\* formatSearchResult(filePath, query, ..., searchResult, options?.maxMatches ?? 50)
SmartSearchFormat ==
  /\ calls.pc = "searching"
  /\ se.pc = "done"
  /\ LET maxMatches == OrElse(calls.options.maxMatches, 50)
     IN calls' = [calls EXCEPT !.pc = "done", !.shownCap = maxMatches,
                               !.moreShown = se.totalMatchesFound # 0 /\ se.truncated,
                               !.more = se.totalMatchesFound - maxMatches]
  /\ UNCHANGED <<tr, fs, clock, cm, se, an>>

NextSmartSearch ==
  \/ SmartSearchCall
  \/ NextSearch
  \/ SmartSearchFormat

SpecSmartSearch == InitSmartSearch /\ [][NextSmartSearch]_vars

Searchable == calls.pc = "done" /\ calls.fileExists /\ calls.hasMap

\* C21: a smartSearch call on a renderable file searches for its query
\* argument and does not fail, whether options is omitted or sets some of
\* isRegex, caseSensitive, contextLines, maxMatches.
C21_QueryArgumentSearched ==
  (Searchable /\ calls.options.query = UndefinedQuery) =>
    /\ calls.error = "none"
    /\ se # Idle
    /\ se.pat = calls.query

\* C22: a finished search whose maxMatches was omitted returns the first 50
\* matching lines, or all of them when there are fewer.
C22_DefaultCapIsFifty ==
  (Searchable /\ calls.error = "none" /\ calls.options.maxMatches = Undefined) =>
    Len(se.matches) = Min(se.totalMatchesFound, 50)

\* C29: when the formatted search output ends with "(N more matches not
\* shown)", N is the total number of matches minus the number of matches
\* listed, and at least 1.
C29_MoreIsUnlisted ==
  (Searchable /\ calls.moreShown) =>
    /\ calls.more = se.totalMatchesFound - Len(se.matches)
    /\ calls.more >= 1

(***************************************************************************)
(* CUSTOM TRANSFORM (applyCustomTransform): where the output is written.   *)
(* A file name is a sequence of the pieces "main", ".min", ".beautified",  *)
(* "_deob", "_v2", ".js", ".map"; every file is in one directory.  fs.files *)
(* is the set of files that exist; calls is the last request.              *)
(***************************************************************************)
MaxNameLen == 4

\* cleanBasename: drop a final ".js", then everything from the first "_deob"
\* on (name.replace(/_deob[^/]*$/, '')), then a final ".beautified"
cleanBasename(filename) ==
  LET name == IF filename # <<>> /\ filename[Len(filename)] = ".js"
              THEN SubSeq(filename, 1, Len(filename) - 1) ELSE filename
      deobs == {k \in 1..Len(name) : name[k] = "_deob"}
      cut == IF deobs = {} THEN name
             ELSE SubSeq(name, 1, (CHOOSE k \in deobs : \A j \in deobs : k <= j) - 1)
  IN IF cut # <<>> /\ cut[Len(cut)] = ".beautified"
     THEN SubSeq(cut, 1, Len(cut) - 1) ELSE cut

\* getOutputPaths: `${basename}${outputSuffix}.js` and that path + ".map"
getOutputPaths(targetFile, outputSuffix) ==
  LET outputPath == cleanBasename(targetFile) \o outputSuffix \o <<".js">>
  IN [outputPath |-> outputPath, mapPath |-> outputPath \o <<".map">>]

InitTransform ==
  /\ fs \in [files : {{<<"main", ".js">>}, {<<"main", ".min", ".js">>},
                      {<<"main", ".beautified", ".js">>}}]
  /\ calls = [pc |-> "idle", target |-> <<>>, error |-> "none",
              outputPath |-> <<>>, mapPath |-> <<>>]
  /\ clock = 0
  /\ tr = Idle /\ cm = Idle /\ se = Idle /\ an = Idle

\* applyCustomTransform(targetFile, {scriptPath, outputSuffix}): the target
\* exists; a target that is not JavaScript has no map and is refused;
\* otherwise the output and its map are written
applyCustomTransform(targetFile, outputSuffix) ==
  LET paths == getOutputPaths(targetFile, outputSuffix)
  IN /\ targetFile \in fs.files
     /\ Len(paths.outputPath) <= MaxNameLen
     /\ IF targetFile[Len(targetFile)] # ".js"
        THEN /\ calls' = [pc |-> "done", target |-> targetFile,
                          error |-> "Cannot transform",
                          outputPath |-> <<>>, mapPath |-> <<>>]
             /\ fs' = fs
        ELSE /\ calls' = [pc |-> "done", target |-> targetFile, error |-> "none",
                          outputPath |-> paths.outputPath, mapPath |-> paths.mapPath]
             /\ fs' = [fs EXCEPT !.files = fs.files \cup {paths.outputPath, paths.mapPath}]
     /\ UNCHANGED <<tr, clock, cm, se, an>>

NextTransform ==
  \E targetFile \in fs.files :
    \E outputSuffix \in {<<"_deob">>, <<"_v2">>, <<"_deob", "_v2">>, <<".min">>, <<>>} :
      applyCustomTransform(targetFile, outputSuffix)

SpecTransform == InitTransform /\ [][NextTransform]_vars

\* C28: a transform that wrote its output wrote the output and the map to
\* paths different from the target file.
C28_TargetNotOverwritten ==
  (calls.pc = "done" /\ calls.error = "none") =>
    /\ calls.outputPath # calls.target
    /\ calls.mapPath # calls.target

(***************************************************************************)
(* BINDING ANALYZER (analyzeBindings)                                      *)
(*                                                                         *)
(* The parsed text is the sequence of its Identifier nodes in traversal    *)
(* (source) order.  A node is [line, scope, role]:                         *)
(*   scope  the lexical scope the node lies in (path.scope); scope 1 is    *)
(*          the program, scopes 2 and 3 are two functions declared in it   *)
(*   role   "decl"  the declaring identifier of a binding of the searched  *)
(*                  name in that scope                                     *)
(*          "ref"   a read or write of the searched name                   *)
(*          "prop"  the searched name used as a property name or label     *)
(*          "other" an identifier with another name                        *)
(* The column of the k-th node is k.  The scope facility (path.scope,      *)
(* getBinding, binding.referencePaths) is the parser's: a name resolves to *)
(* the binding of the nearest enclosing scope that declares it.            *)
(***************************************************************************)
MaxOcc == 3
MaxRefs == 1

SrcLines == {1, 2}
ScopeIds == {1, 2, 3}
NoScope == 0

Declares(occs, sc) == \E k \in 1..Len(occs) : occs[k].role = "decl" /\ occs[k].scope = sc

\* scope.getBinding(identifier): the uid of the scope that owns the binding
\* visible from sc, or NoScope
RECURSIVE getBinding(_, _)
getBinding(occs, sc) ==
  IF sc = NoScope THEN NoScope
  ELSE IF Declares(occs, sc) THEN sc
  ELSE getBinding(occs, IF sc = 1 THEN NoScope ELSE 1)

\* createLocationInfo for node k
Loc(occs, k) == [line |-> occs[k].line, column |-> k]

\* allReferences: binding.referencePaths from the k-th node on in source
\* order, as locations
RECURSIVE ReferencesFrom(_, _, _)
ReferencesFrom(occs, b, k) ==
  IF k > Len(occs) THEN <<>>
  ELSE (IF occs[k].role = "ref" /\ getBinding(occs, occs[k].scope) = b
        THEN <<Loc(occs, k)>> ELSE <<>>) \o ReferencesFrom(occs, b, k + 1)

\* a limit that keeps one reference less
limitOneLess(refs, maxReferences) == JsSlice(refs, 0, maxReferences - 1)

\* allReferences.slice(0, maxReferences)
limit(refs, maxReferences) == JsSlice(refs, 0, maxReferences)

\* a targeted search that takes the first node of the name, whatever its line
OnTargetLineAny(line, targetLine) == TRUE

\* nodeLoc.start.line === targetLine
OnTargetLine(line, targetLine) == line = targetLine

\* a targeted traversal that goes on after its first binding
StopsNever(targeted) == FALSE

\* if (isTargeted) path.stop()
Stops(targeted) == targeted

\* a traversal that does not remember the scopes it has processed
AlreadyProcessedNever(processedScopes, scopeUid) == FALSE

\* processedScopes.has(scopeUid)
AlreadyProcessed(processedScopes, scopeUid) == scopeUid \in processedScopes

\* the texts are nodes in source order with one declaration of the name per
\* scope; targetLine 0 stands for an omitted targetLine
InitAnalyze ==
  /\ an \in ([pc : {"traverse"},
          occs : SeqsUpTo([line : SrcLines, scope : ScopeIds,
                           role : {"decl", "ref", "prop"}]
                            \cup [line : SrcLines, scope : {1}, role : {"other"}],
                          MaxOcc),
          targetLine : {0} \cup SrcLines,
          maxReferences : 0..MaxRefs, next : {1}, bindings : {<<>>},
          processedScopes : {{}}])
  /\ \A k \in 1..(Len(an.occs) - 1) : an.occs[k].line <= an.occs[k + 1].line
  /\ \A j, k \in 1..Len(an.occs) :
       (j # k /\ an.occs[j].role = "decl" /\ an.occs[k].role = "decl")
         => an.occs[j].scope # an.occs[k].scope
  /\ tr = Idle /\ fs = Idle /\ clock = 0 /\ calls = Idle /\ cm = Idle /\ se = Idle

isTargeted == an.targetLine # 0
Visiting == an.pc = "traverse" /\ an.next <= Len(an.occs)
Node == an.occs[an.next]
Skip == an' = [an EXCEPT !.next = an.next + 1]

\* Identifier visitor: path.node.name !== identifier
VisitOtherName ==
  /\ Visiting
  /\ Node.role = "other"
  /\ Skip
  /\ UNCHANGED <<tr, fs, clock, calls, cm, se>>

\* Identifier visitor: targeted and the node is not on the target line
VisitOffTarget ==
  /\ Visiting
  /\ Node.role # "other"
  /\ isTargeted /\ ~OnTargetLine(Node.line, an.targetLine)
  /\ Skip
  /\ UNCHANGED <<tr, fs, clock, calls, cm, se>>

Considered ==
  /\ Visiting
  /\ Node.role # "other"
  /\ isTargeted => OnTargetLine(Node.line, an.targetLine)

\* Identifier visitor: path.scope.getBinding(identifier) finds nothing
VisitUnbound ==
  /\ Considered
  /\ getBinding(an.occs, Node.scope) = NoScope
  /\ Skip
  /\ UNCHANGED <<tr, fs, clock, calls, cm, se>>

\* Identifier visitor: the binding's scope was processed before
VisitProcessed ==
  /\ Considered
  /\ getBinding(an.occs, Node.scope) # NoScope
  /\ AlreadyProcessed(an.processedScopes, getBinding(an.occs, Node.scope))
  /\ Skip
  /\ UNCHANGED <<tr, fs, clock, calls, cm, se>>

\* Identifier visitor: a binding is recorded; a targeted traversal stops
VisitCollect ==
  /\ Considered
  /\ LET scopeUid == getBinding(an.occs, Node.scope)
         refs == ReferencesFrom(an.occs, scopeUid, 1)
     IN /\ scopeUid # NoScope
        /\ ~AlreadyProcessed(an.processedScopes, scopeUid)
        /\ an' = [an EXCEPT
                    !.processedScopes = an.processedScopes \cup {scopeUid},
                    !.bindings = Append(an.bindings,
                       [scopeUid |-> scopeUid,
                        definition |-> Loc(an.occs, CHOOSE k \in 1..Len(an.occs) :
                                         /\ an.occs[k].role = "decl"
                                         /\ an.occs[k].scope = scopeUid),
                        references |-> limit(refs, an.maxReferences),
                        totalReferences |-> Len(refs),
                        hitLocation |-> IF isTargeted THEN Loc(an.occs, an.next)
                                        ELSE [line |-> 0, column |-> 0]]),
                    !.next = an.next + 1,
                    !.pc = IF Stops(isTargeted) THEN "returned" ELSE "traverse"]
  /\ UNCHANGED <<tr, fs, clock, calls, cm, se>>

\* the traversal has visited every node: analyzeBindings returns
TraversalEnds ==
  /\ an.pc = "traverse"
  /\ an.next > Len(an.occs)
  /\ an' = [an EXCEPT !.pc = "returned"]
  /\ UNCHANGED <<tr, fs, clock, calls, cm, se>>

NextAnalyze ==
  \/ VisitOtherName
  \/ VisitOffTarget
  \/ VisitUnbound
  \/ VisitProcessed
  \/ VisitCollect
  \/ TraversalEnds

SpecAnalyze == InitAnalyze /\ [][NextAnalyze]_vars

\* nodes of the searched name on the target line
NamedOnTarget == {k \in 1..Len(an.occs) :
                    an.occs[k].role # "other" /\ an.occs[k].line = an.targetLine}
RefsOnTarget == {k \in NamedOnTarget : an.occs[k].role = "ref"}
Resolves(k) == getBinding(an.occs, an.occs[k].scope) # NoScope
TheRefOnTarget == CHOOSE k \in RefsOnTarget : TRUE

HitIs(k) ==
  /\ Len(an.bindings) = 1
  /\ an.bindings[1].scopeUid = getBinding(an.occs, an.occs[k].scope)
  /\ an.bindings[1].hitLocation = Loc(an.occs, k)

\* C6 as claimed: in targeted mode, when the target line is the line of exactly
\* one reference of the identifier, the result is exactly one binding, the one
\* that reference resolves to, with hitLocation at that reference, whatever
\* other nodes of the name lie on the line.
C6_Original ==
  (/\ an.pc = "returned" /\ isTargeted
   /\ Cardinality(RefsOnTarget) = 1
   /\ Resolves(TheRefOnTarget)) => HitIs(TheRefOnTarget)

\* C6 as amended: the same, provided no node of the name that resolves to a
\* binding comes before the reference on the target line.
C6_FirstResolvingNodeIsHit ==
  (/\ an.pc = "returned" /\ isTargeted
   /\ Cardinality(RefsOnTarget) = 1
   /\ Resolves(TheRefOnTarget)
   /\ \A k \in NamedOnTarget : (k < TheRefOnTarget) => ~Resolves(k))
     => HitIs(TheRefOnTarget)

\* C6 witness: the hit is the one reference of the target line, another node
\* of the name lies on that line, and another scope declares the name too
C6_Witness ==
  /\ an.pc = "returned" /\ isTargeted
  /\ Cardinality(RefsOnTarget) = 1
  /\ Cardinality(NamedOnTarget) >= 2
  /\ HitIs(TheRefOnTarget)
  /\ \E sc \in ScopeIds : Declares(an.occs, sc) /\ sc # an.bindings[1].scopeUid

BindingScopes == {sc \in ScopeIds : Declares(an.occs, sc)}

C8_ReferencesArePrefix ==
  \A i \in 1..Len(an.bindings) :
    LET b == an.bindings[i]
        full == ReferencesFrom(an.occs, b.scopeUid, 1)
    IN /\ b.totalReferences = Len(full)
       /\ Len(b.references) = Min(Len(full), an.maxReferences)
       /\ \A k \in 1..Len(b.references) : b.references[k] = full[k]

\* C8 witness: a binding with more references than maxReferences, of which
\* the first is returned
C8_Witness ==
  /\ an.pc = "returned"
  /\ \E i \in 1..Len(an.bindings) :
       /\ an.bindings[i].totalReferences > an.maxReferences
       /\ Len(an.bindings[i].references) = 1

\* nodes of the name on the target line that resolve to a binding
ResolvingOnTarget == {k \in NamedOnTarget : Resolves(k)}

\* C30: targeted, analyzeBindings returns at most one binding, the one of the
\* first node of the name on the target line that resolves to a binding, with
\* hitLocation at that node and so on the target line, and none when no such
\* node exists; untargeted, no returned binding has a hitLocation.
C30_TargetedStopsAtFirstHit ==
  an.pc = "returned" =>
    IF an.targetLine # 0
    THEN /\ Len(an.bindings) <= 1
         /\ Len(an.bindings) = 1 <=> ResolvingOnTarget # {}
         /\ \A i \in 1..Len(an.bindings) :
              /\ an.bindings[i].hitLocation.line = an.targetLine
              /\ an.bindings[i].hitLocation.column \in ResolvingOnTarget
              /\ \A k \in ResolvingOnTarget : an.bindings[i].hitLocation.column <= k
    ELSE \A i \in 1..Len(an.bindings) :
           an.bindings[i].hitLocation = [line |-> 0, column |-> 0]

\* C30 witness: a targeted traversal that stopped at the first of two nodes
\* of the target line that resolve to different bindings, before the last node
C30_Witness ==
  /\ an.pc = "returned" /\ an.targetLine # 0
  /\ Len(an.bindings) = 1
  /\ an.bindings[1].hitLocation.line = an.targetLine
  /\ an.next <= Len(an.occs)
  /\ \E j, k \in ResolvingOnTarget :
       getBinding(an.occs, an.occs[j].scope) # getBinding(an.occs, an.occs[k].scope)

====
